---- MODULE Spec2Model ----
(***************************************************************************)
(* Lockstitch (cSHAKE128 / AES-128-CTR / POLYVAL variant): the Protocol     *)
(* object, its transcript encoding and its operations.                      *)
(*                                                                          *)
(* The three primitives come from outside the package (crypto/sha3,         *)
(* crypto/cipher, ericlagergren/polyval).  They are modelled as ideal       *)
(* functions: an output byte is the formal XOR of a constant and of a set   *)
(* of "atoms", an atom being byte number i of the output stream of one      *)
(* primitive call on given inputs.  Equal inputs give equal atoms, distinct *)
(* inputs give distinct atoms, and XOR cancels equal atoms.                  *)
(***************************************************************************)
EXTENDS Integers, Sequences, FiniteSets, TLC

(***************************************************************************)
(* Bounds of the model.                                                     *)
(***************************************************************************)
MaxLen == 2
MaxMix == 1
MaxOps == 1

(***************************************************************************)
(* Byte strings.  A byte is a constant in 0..255 XORed with a set of atoms, *)
(* an atom <<src, i>> being byte i of the output of the primitive call      *)
(* src = [kind, a, b].  A byte string is a sequence of runs [x, s]: byte j  *)
(* of the run is the constant x[j] XORed with the atoms <<src, i + j - 1>>  *)
(* for <<src, i>> in s.  Runs are maximal (no two neighbours could be one   *)
(* run), so two byte strings are equal iff their run sequences are.         *)
(***************************************************************************)
\* The one element of a singleton set.  Binding a value with v \in {e} makes
\* TLC compute e once, and f \o <<>> turns a function into a tuple.
The(S) == CHOOSE r \in S : TRUE

Bytes(ints) == IF ints = <<>> THEN <<>> ELSE <<[x |-> ints, s |-> {}]>>

B(c) == Bytes(<<c>>)

Zeros(n) == [i \in 1..n |-> 0] \o <<>>

RECURSIVE BLen(_)
BLen(bs) == IF bs = <<>> THEN 0 ELSE Len(bs[1].x) + BLen(Tail(bs))

Shift(K, d) == {<<a[1], a[2] + d>> : a \in K}

Cat(a, b) ==
    IF a = <<>> THEN b
    ELSE IF b = <<>> THEN a
    ELSE LET la == a[Len(a)]
             fb == b[1]
         IN  IF Shift(la.s, Len(la.x)) = fb.s
             THEN SubSeq(a, 1, Len(a) - 1) \o <<[x |-> la.x \o fb.x, s |-> la.s]>> \o Tail(b)
             ELSE a \o b

RECURSIVE Concat(_)
Concat(ss) == IF ss = <<>> THEN <<>> ELSE Cat(Head(ss), Concat(Tail(ss)))

RECURSIVE Take(_, _)
Take(bs, n) ==
    IF n = 0 \/ bs = <<>> THEN <<>>
    ELSE IF Len(bs[1].x) <= n
         THEN <<bs[1]>> \o Take(Tail(bs), n - Len(bs[1].x))
         ELSE <<[x |-> SubSeq(bs[1].x, 1, n), s |-> bs[1].s]>>

RECURSIVE Drop(_, _)
Drop(bs, n) ==
    IF n = 0 \/ bs = <<>> THEN bs
    ELSE IF Len(bs[1].x) <= n
         THEN Drop(Tail(bs), n - Len(bs[1].x))
         ELSE <<[x |-> SubSeq(bs[1].x, n + 1, Len(bs[1].x)), s |-> Shift(bs[1].s, n)]>>
              \o Tail(bs)

RECURSIVE Xor8(_, _)
Xor8(a, b) ==
    IF a = 0 THEN b
    ELSE IF b = 0 THEN a
    ELSE ((a + b) % 2) + 2 * Xor8(a \div 2, b \div 2)

XorInts(xs, ys, k) ==
    The({[i \in 1..k |-> Xor8(u[i], v[i])] \o <<>> : u \in {xs}, v \in {ys}})

\* XOR of two byte strings of the same length.
RECURSIVE XorBytes(_, _)
XorBytes(a, b) ==
    IF a = <<>> \/ b = <<>> THEN <<>>
    ELSE LET k == IF Len(a[1].x) <= Len(b[1].x) THEN Len(a[1].x) ELSE Len(b[1].x)
             head == [x |-> XorInts(a[1].x, b[1].x, k),
                      s |-> (a[1].s \ b[1].s) \cup (b[1].s \ a[1].s)]
         IN  Cat(<<head>>, XorBytes(Drop(a, k), Drop(b, k)))

(***************************************************************************)
(* The primitives, as ideal functions.                                      *)
(***************************************************************************)
Stream(kind, a, b, n) ==
    IF n = 0 THEN <<>>
    ELSE <<[x |-> Zeros(n), s |-> {<<[kind |-> kind, a |-> a, b |-> b], 0>>}]>>

\* sha3.SHAKE: n bytes squeezed after absorbing `absorbed` under customization `custom`.
\* An engine whose output does not depend on its customization.
SHAKEReadUncustomized(custom, absorbed, n) == Stream("XOF", <<>>, absorbed, n)

SHAKERead(custom, absorbed, n) == Stream("XOF", custom, absorbed, n)

\* An engine that XORs its output into the bytes out holds.
SHAKEXorInto(out, custom, absorbed) ==
    XorBytes(out, SHAKERead(custom, absorbed, BLen(out)))

\* h.Read(out): what out holds afterwards; the squeezed bytes replace whatever
\* out held.
SHAKEReadInto(out, custom, absorbed) == SHAKERead(custom, absorbed, BLen(out))

\* cipher.NewCTR(aes.NewCipher(key), iv).XORKeyStream(dst, src)
XORKeyStream(key, iv, src) == XorBytes(src, Stream("CTR", key, iv, BLen(src)))

\* polyval.New(key), Update(blocks), Sum
PolyvalSum(key, blocks) == Stream("POLYVAL", key, blocks, 16)

(***************************************************************************)
(* Constants of the package.                                                *)
(***************************************************************************)
TagLen == 16
opMix == 1
opDerive == 2
opCrypt == 3
opAuthCrypt == 4
opExpand == 5
opRatchet == 6

DomainPrefix == <<108, 111, 99, 107, 115, 116, 105, 116, 99, 104, 58>>
LabelPrf == <<112, 114, 102, 32, 111, 117, 116, 112, 117, 116>>
LabelDek == <<100, 97, 116, 97, 32, 101, 110, 99, 114, 121, 112, 116, 105, 111, 110, 32, 107, 101, 121>>
LabelDak == <<100, 97, 116, 97, 32, 97, 117, 116, 104, 101, 110, 116, 105, 99, 97, 116, 105, 111, 110, 32, 107, 101, 121>>
LabelTag == <<97, 117, 116, 104, 101, 110, 116, 105, 99, 97, 116, 105, 111, 110, 32, 116, 97, 103>>
LabelRatchet == <<114, 97, 116, 99, 104, 101, 116, 32, 107, 101, 121>>

(***************************************************************************)
(* leftEncode / rightEncode (values below 2^31 in this model).              *)
(***************************************************************************)
\* The n low-order bytes of v, most significant first (binary.BigEndian).
RECURSIVE BigEndian(_, _)
BigEndian(v, n) == IF n = 0 THEN <<>> ELSE Append(BigEndian(v \div 256, n - 1), v % 256)

\* The n low-order bytes of v, least significant first (binary.LittleEndian).
RECURSIVE LittleEndian(_, _)
LittleEndian(v, n) == IF n = 0 THEN <<>> ELSE <<v % 256>> \o LittleEndian(v \div 256, n - 1)

RECURSIVE SignificantBytes(_)
SignificantBytes(v) == IF v < 256 THEN 1 ELSE 1 + SignificantBytes(v \div 256)

\* bits.LeadingZeros64(value) / 8
LeadingZeroBytes(value) == IF value = 0 THEN 8 ELSE 8 - SignificantBytes(value)

Max(a, b) == IF a >= b THEN a ELSE b

EncodedLen(value) == Max(9 - 1 - LeadingZeroBytes(value), 1)

leftEncode(value) ==
    The({Bytes(<<n>> \o BigEndian(value, n)) : n \in {EncodedLen(value)}})

rightEncode(value) ==
    The({Bytes(BigEndian(value, n) \o <<n>>) : n \in {EncodedLen(value)}})

(***************************************************************************)
(* leftEncode / rightEncode over the whole of uint64.  A uint64 is the     *)
(* tuple of its eight bytes, most significant first, which is what         *)
(* binary.BigEndian.PutUint64 stores.                                      *)
(***************************************************************************)
RECURSIVE BitLen(_)
BitLen(b) == IF b = 0 THEN 0 ELSE 1 + BitLen(b \div 2)

\* bits.LeadingZeros64(value)
LeadingZeros64(value) ==
    LET nz == {k \in 1..8 : value[k] # 0}
    IN  IF nz = {} THEN 64
        ELSE LET k == CHOOSE j \in nz : \A m \in nz : j <= m
             IN  8 * (k - 1) + 8 - BitLen(value[k])

\* leftEncode without the max: a zero value is encoded with no value byte.
leftEncodeNoMax(value) ==
    LET buf == <<0>> \o value
        n == 9 - 1 - (LeadingZeros64(value) \div 8)
    IN  SubSeq([buf EXCEPT ![9 - n] = n], 9 - n, 9)

\* leftEncode of the value converted to uint32.
leftEncodeUint32(value) ==
    LET low == <<0, 0, 0, 0>> \o SubSeq(value, 5, 8)
        buf == <<0>> \o low
        n == Max(9 - 1 - (LeadingZeros64(low) \div 8), 1)
    IN  SubSeq([buf EXCEPT ![9 - n] = n], 9 - n, 9)

\* The length byte written after the value bytes and not before them.
leftEncodeLengthLast(value) ==
    LET buf == value \o <<0>>
        n == Max(9 - 1 - (LeadingZeros64(value) \div 8), 1)
    IN  SubSeq([buf EXCEPT ![9] = n], 9 - n, 9)

\* buf[k] of the code is buf[k + 1] here.
leftEncodeUint64(value) ==
    LET buf == <<0>> \o value
        n == Max(9 - 1 - (LeadingZeros64(value) \div 8), 1)
    IN  SubSeq([buf EXCEPT ![9 - n] = n], 9 - n, 9)

rightEncodeUint64(value) ==
    LET buf == value \o <<0>>
        n == Max(9 - 1 - (LeadingZeros64(value) \div 8), 1)
    IN  SubSeq([buf EXCEPT ![9] = n], 9 - n, 9)

\* value | 1
OrOne(value) == [value EXCEPT ![8] = IF @ % 2 = 0 THEN @ + 1 ELSE @]

\* value << (k * 8)
ShiftLeftBytes(value, k) == SubSeq(value, k + 1, 8) \o Zeros(k)

\* tuplehash.LeftEncode(nil, value) and tuplehash.RightEncode(nil, value)
LeftEncode(value) ==
    LET n == 8 - (LeadingZeros64(OrOne(value)) \div 8)
        buf == <<n>> \o ShiftLeftBytes(value, 8 - n)
    IN  SubSeq(buf, 1, 9 - (8 - n))

RightEncode(value) ==
    LET n == 8 - (LeadingZeros64(OrOne(value)) \div 8)
        buf == ShiftLeftBytes(value, 8 - n) \o <<0>>
    IN  SubSeq([buf EXCEPT ![n + 1] = n], 1, 9 - (8 - n))

(***************************************************************************)
(* sliceForAppend: the contents of `in` followed by n bytes to be filled.   *)
(***************************************************************************)
\* sliceForAppend whose head holds the tail only.
sliceForAppendHeadless(in, tail) == tail

sliceForAppend(in, tail) == Cat(in, tail)

\* A slice with its backing array: data is the len(in) bytes of the slice,
\* spare the cap(in) - len(in) bytes of the array after them.
Slice(data, spare) == [data |-> data, spare |-> spare]

Nil == Slice(<<>>, <<>>)

\* What the tail that sliceForAppend(in, n) returns holds before it is written:
\* the spare bytes of in when its capacity suffices, and else the zeros of a new
\* array.
sliceForAppendTail(in, n) ==
    IF BLen(in.spare) >= n THEN Take(in.spare, n) ELSE Bytes(Zeros(n))

(***************************************************************************)
(* polyvalAuth: the GCM-SIV padding, then POLYVAL.                          *)
(***************************************************************************)
\* The padding without the final block that holds the length.
PolyvalBlocksNoLength(message) ==
    LET n == BLen(message)
        m == IF n >= 16 THEN n - (n % 16) ELSE 0
        full == Take(message, m)
        rest == Drop(message, m)
        padded == IF n - m > 0 THEN Cat(rest, Bytes(Zeros(16 - (n - m)))) ELSE <<>>
    IN  Cat(full, padded)

PolyvalBlocks(message) ==
    LET n == BLen(message)
        m == IF n >= 16 THEN n - (n % 16) ELSE 0
        full == Take(message, m)
        rest == Drop(message, m)
        padded == IF n - m > 0 THEN Cat(rest, Bytes(Zeros(16 - (n - m)))) ELSE <<>>
        lenblock == Bytes(LittleEndian(0, 8) \o LittleEndian(n * 8, 8))
    IN  Cat(Cat(full, padded), lenblock)

polyvalAuth(key, message) == PolyvalSum(key, PolyvalBlocks(message))

(***************************************************************************)
(* The Protocol.  st = [custom, transcript]: the cSHAKE128 engine, i.e.     *)
(* its customization string and the bytes absorbed since the last Reset.    *)
(***************************************************************************)
NewProtocol(domain) ==
    [custom |-> Bytes(DomainPrefix \o domain), transcript |-> <<>>]

Write(st, data) == [st EXCEPT !.transcript = Cat(@, data)]

Reset(st) == [st EXCEPT !.transcript = <<>>]

\* combine that writes the inputs one after the other without their lengths.
combineNoLengths(st, op, inputs) ==
    Write(st, Cat(B(op), Concat([k \in 1..Len(inputs) |-> inputs[k]] \o <<>>)))

\* combine with the lengths encoded in bytes instead of bits.
combineByteLengths(st, op, inputs) ==
    Write(st, Cat(B(op),
                  Concat([k \in 1..Len(inputs) |->
                             Cat(leftEncode(BLen(inputs[k])), inputs[k])] \o <<>>)))

\* combine that writes its last input without a length header.
combineLastBare(st, op, inputs) ==
    Write(st, Cat(B(op),
                  Concat([k \in 1..Len(inputs) |->
                             IF k = Len(inputs)
                             THEN inputs[k]
                             ELSE Cat(leftEncode(BLen(inputs[k]) * 8), inputs[k])] \o <<>>)))

combine(st, op, inputs) ==
    Write(st, Cat(B(op),
                  Concat([k \in 1..Len(inputs) |->
                             Cat(leftEncode(BLen(inputs[k]) * 8), inputs[k])] \o <<>>)))

\* expand that absorbs its record into a fresh engine instead of a copy of the
\* transcript.
expandFromEmpty(st, label, n) ==
    LET h == Write(Reset(st), Concat(<<B(opExpand), leftEncode(Len(label) * 8), Bytes(label),
                                        rightEncode(n * 8)>>))
    IN  SHAKERead(h.custom, h.transcript, n)

\* expand that leaves the label out of the record its copy absorbs.
expandUnlabelled(st, label, n) ==
    LET h == Write(st, Concat(<<B(opExpand), rightEncode(n * 8)>>))
    IN  SHAKERead(h.custom, h.transcript, n)

\* expand(dst, label, n) for a dst with spare capacity: the slice returned.
expandInto(st, dst, label, n) ==
    LET out == sliceForAppendTail(dst, n)
        h == Write(st, Concat(<<B(opExpand), leftEncode(Len(label) * 8), Bytes(label),
                                 rightEncode(BLen(out) * 8)>>))
    IN  sliceForAppend(dst.data, SHAKEReadInto(out, h.custom, h.transcript))

\* expand(nil, label, n)
expand(st, label, n) ==
    LET h == Write(st, Concat(<<B(opExpand), leftEncode(Len(label) * 8), Bytes(label),
                                 rightEncode(n * 8)>>))
    IN  SHAKERead(h.custom, h.transcript, n)

\* expand whose h is the protocol's transcript itself instead of a copy.
expandAliased(st, label, n) ==
    LET h == Write(st, Concat(<<B(opExpand), leftEncode(Len(label) * 8), Bytes(label),
                                 rightEncode(n * 8)>>))
    IN  [p |-> h, ret |-> SHAKERead(h.custom, h.transcript, n)]

\* p.expand(nil, label, n) with the protocol it leaves: h is a copy of the
\* protocol's transcript, the record is written to and the output read from h.
expandCall(st, label, n) ==
    LET h == Write(st, Concat(<<B(opExpand), leftEncode(Len(label) * 8), Bytes(label),
                                 rightEncode(n * 8)>>))
    IN  [p |-> st, ret |-> SHAKERead(h.custom, h.transcript, n)]

\* ratchet that expands the ratchet key after clearing the transcript.
ratchetAfterReset(st) ==
    LET rak == expand(Reset(st), LabelRatchet, 32)
    IN  combine(Reset(st), opRatchet, <<rak>>)

\* ratchet that appends the ratchet record without clearing the transcript.
ratchetNoReset(st) ==
    LET rak == expand(st, LabelRatchet, 32)
    IN  combine(st, opRatchet, <<rak>>)

ratchet(st) ==
    LET rak == expand(st, LabelRatchet, 32)
    IN  combine(Reset(st), opRatchet, <<rak>>)

Mix(st, label, input) == combine(st, opMix, <<Bytes(label), input>>)

\* Derive that leaves the output length out of its metadata.
DeriveWithoutLength(st, label, dst, n) ==
    LET s1 == combine(st, opDerive, <<Bytes(label)>>)
        prf == sliceForAppend(dst, expand(s1, LabelPrf, n))
    IN  [p |-> ratchet(s1), ret |-> prf]

\* Derive that reads its output and leaves the protocol as it was.
DeriveWithoutRatchet(st, label, dst, n) ==
    LET s1 == combine(st, opDerive, <<Bytes(label), leftEncode(n * 8)>>)
        prf == sliceForAppend(dst, expand(s1, LabelPrf, n))
    IN  [p |-> st, ret |-> prf]

\* Derive that writes left_encode(8 * n) without a length prefix of its own.
DeriveSinglePrefix(st, label, dst, n) ==
    LET s1 == Write(combine(st, opDerive, <<Bytes(label)>>), leftEncode(n * 8))
        prf == sliceForAppend(dst, expand(s1, LabelPrf, n))
    IN  IF n < 0
        THEN [p |-> st, ret |-> <<>>, panic |-> TRUE]
        ELSE [p |-> ratchet(s1), ret |-> prf, panic |-> FALSE]

\* Derive that checks n only after writing the label to the transcript.
DerivePanicLate(st, label, dst, n) ==
    LET s0 == combine(st, opDerive, <<Bytes(label)>>)
        s1 == combine(st, opDerive, <<Bytes(label), leftEncode(n * 8)>>)
        prf == sliceForAppend(dst, expand(s1, LabelPrf, n))
    IN  IF n < 0
        THEN [p |-> s0, ret |-> <<>>, panic |-> TRUE]
        ELSE [p |-> ratchet(s1), ret |-> prf, panic |-> FALSE]

\* panic: Derive panicked ("n cannot be negative") and returned nothing.
\* dst is a slice without spare capacity.
Derive(st, label, dst, n) ==
    LET s1 == combine(st, opDerive, <<Bytes(label), leftEncode(n * 8)>>)
        prf == sliceForAppend(dst, expand(s1, LabelPrf, n))
    IN  IF n < 0
        THEN [p |-> st, ret |-> <<>>, panic |-> TRUE]
        ELSE [p |-> ratchet(s1), ret |-> prf, panic |-> FALSE]

\* Derive for a dst with spare capacity.
DeriveInto(st, label, dst, n) ==
    LET s1 == combine(st, opDerive, <<Bytes(label), leftEncode(n * 8)>>)
        prf == expandInto(s1, dst, LabelPrf, n)
    IN  IF n < 0
        THEN [p |-> st, ret |-> <<>>, panic |-> TRUE]
        ELSE [p |-> ratchet(s1), ret |-> prf, panic |-> FALSE]

\* The authenticator record without the authenticator: its length only.
WriteAuthLength(st, auth) == Write(st, leftEncode(BLen(auth) * 8))

(***************************************************************************)
(* Derive for every n of the int type.  n is the tuple of the eight bytes   *)
(* of the int64, most significant first (two's complement).  The bytes of   *)
(* the output are not built: read is what the engine that produces them     *)
(* has absorbed.                                                            *)
(***************************************************************************)
\* n < 0
IsNegative(n) == n[1] >= 128

\* uint64(n) * 8
Times8(n) == [j \in 1..8 |-> ((n[j] * 8) % 256) + (IF j < 8 THEN n[j + 1] \div 32 ELSE 0)] \o <<>>

\* make([]byte, n) returns for the lengths up to 2^32 and panics (len out of
\* range) for those of 2^48 and more, which no process can address.
Allocates(n) == n[1] = 0 /\ n[2] = 0

DeriveWide(st, label, n) ==
    LET e == Bytes(leftEncodeUint64(Times8(n)))
        s1 == combine(st, opDerive, <<Bytes(label), e>>)
        h == Write(s1, Concat(<<B(opExpand), leftEncode(Len(LabelPrf) * 8), Bytes(LabelPrf),
                                 Bytes(rightEncodeUint64(Times8(n)))>>))
    IN  IF IsNegative(n)
        THEN [p |-> st, e |-> <<>>, read |-> <<>>, panic |-> TRUE]
        ELSE IF ~Allocates(n)
        THEN [p |-> s1, e |-> e, read |-> <<>>, panic |-> TRUE]
        ELSE [p |-> ratchet(s1), e |-> e, read |-> h.transcript, panic |-> FALSE]

WriteAuth(st, auth) == Write(Write(st, leftEncode(BLen(auth) * 8)), auth)

ZeroIV == Bytes(Zeros(16))

Encrypt(st, label, dst, plaintext) ==
    LET s1 == combine(st, opCrypt, <<Bytes(label), leftEncode(BLen(plaintext) * 8)>>)
        dek == expand(s1, LabelDek, 16)
        dak == expand(s1, LabelDak, 16)
        auth == polyvalAuth(dak, plaintext)
        s2 == WriteAuth(s1, auth)
        ciphertext == XORKeyStream(dek, ZeroIV, plaintext)
    IN  [p |-> ratchet(s2), ret |-> sliceForAppend(dst, ciphertext)]

\* Decrypt with the ciphertext length encoded in bytes instead of bits.
DecryptByteLength(st, label, dst, ciphertext) ==
    LET s1 == combine(st, opCrypt, <<Bytes(label), leftEncode(BLen(ciphertext))>>)
        dek == expand(s1, LabelDek, 16)
        dak == expand(s1, LabelDak, 16)
        plaintext == XORKeyStream(dek, ZeroIV, ciphertext)
        auth == polyvalAuth(dak, plaintext)
        s2 == WriteAuth(s1, auth)
    IN  [p |-> ratchet(s2), ret |-> sliceForAppend(dst, plaintext)]

\* Decrypt in Encrypt's order: the authenticator is computed over its input, the
\* ciphertext, before decrypting.
DecryptAuthCiphertext(st, label, dst, ciphertext) ==
    LET s1 == combine(st, opCrypt, <<Bytes(label), leftEncode(BLen(ciphertext) * 8)>>)
        dek == expand(s1, LabelDek, 16)
        dak == expand(s1, LabelDak, 16)
        auth == polyvalAuth(dak, ciphertext)
        s2 == WriteAuth(s1, auth)
        plaintext == XORKeyStream(dek, ZeroIV, ciphertext)
    IN  [p |-> ratchet(s2), ret |-> sliceForAppend(dst, plaintext)]

Decrypt(st, label, dst, ciphertext) ==
    LET s1 == combine(st, opCrypt, <<Bytes(label), leftEncode(BLen(ciphertext) * 8)>>)
        dek == expand(s1, LabelDek, 16)
        dak == expand(s1, LabelDak, 16)
        plaintext == XORKeyStream(dek, ZeroIV, ciphertext)
        auth == polyvalAuth(dak, plaintext)
        s2 == WriteAuth(s1, auth)
    IN  [p |-> ratchet(s2), ret |-> sliceForAppend(dst, plaintext)]

\* Seal that ratchets the transcript as it was before the authenticator was
\* appended.
SealRatchetBeforeAuth(st, label, dst, plaintext) ==
    LET s1 == combine(st, opAuthCrypt, <<Bytes(label), leftEncode(BLen(plaintext) * 8)>>)
        dek == expand(s1, LabelDek, 16)
        dak == expand(s1, LabelDak, 16)
        auth == polyvalAuth(dak, plaintext)
        s2 == WriteAuth(s1, auth)
        tag == expand(s2, LabelTag, TagLen)
        ciphertext == XORKeyStream(dek, tag, plaintext)
    IN  [p |-> ratchet(s1), ret |-> sliceForAppend(dst, Cat(ciphertext, tag))]

Seal(st, label, dst, plaintext) ==
    LET s1 == combine(st, opAuthCrypt, <<Bytes(label), leftEncode(BLen(plaintext) * 8)>>)
        dek == expand(s1, LabelDek, 16)
        dak == expand(s1, LabelDak, 16)
        auth == polyvalAuth(dak, plaintext)
        s2 == WriteAuth(s1, auth)
        tag == expand(s2, LabelTag, TagLen)
        ciphertext == XORKeyStream(dek, tag, plaintext)
    IN  [p |-> ratchet(s2), ret |-> sliceForAppend(dst, Cat(ciphertext, tag))]

(***************************************************************************)
(* subtle.ConstantTimeCompare.  v is its result, steps the number of bytes  *)
(* of x it has compared with the byte of y when it returns, which is what   *)
(* the time it takes depends on.                                            *)
(***************************************************************************)
ByteAt(bs, i) == Take(Drop(bs, i - 1), 1)

RECURSIVE EqualLoop(_, _, _)
EqualLoop(x, y, i) ==
    IF i > BLen(x) THEN [v |-> 1, steps |-> i - 1]
    ELSE IF ByteAt(x, i) # ByteAt(y, i) THEN [v |-> 0, steps |-> i]
    ELSE EqualLoop(x, y, i + 1)

\* A comparison that returns at the first byte in which x and y differ.
CompareEarlyExit(x, y) ==
    IF BLen(x) # BLen(y) THEN [v |-> 0, steps |-> 0] ELSE EqualLoop(x, y, 1)

\* different: whether some byte compared so far differed.
RECURSIVE ConstantTimeLoop(_, _, _, _)
ConstantTimeLoop(x, y, i, different) ==
    IF i > BLen(x) THEN [v |-> IF different THEN 0 ELSE 1, steps |-> i - 1]
    ELSE ConstantTimeLoop(x, y, i + 1, different \/ ByteAt(x, i) # ByteAt(y, i))

ConstantTimeCompare(x, y) ==
    IF BLen(x) # BLen(y) THEN [v |-> 0, steps |-> 0] ELSE ConstantTimeLoop(x, y, 1, FALSE)

\* Open that decrypts with the zero IV, as Decrypt does, instead of the tag.
OpenZeroIV(st, label, dst, input) ==
    LET ciphertext == Take(input, BLen(input) - TagLen)
        tag == Drop(input, BLen(input) - TagLen)
        s1 == combine(st, opAuthCrypt, <<Bytes(label), leftEncode(BLen(ciphertext) * 8)>>)
        dek == expand(s1, LabelDek, 16)
        dak == expand(s1, LabelDak, 16)
        plaintext == XORKeyStream(dek, ZeroIV, ciphertext)
        auth == polyvalAuth(dak, plaintext)
        s2 == WriteAuth(s1, auth)
        tagP == expand(s2, LabelTag, TagLen)
        s3 == ratchet(s2)
    IN  IF tag # tagP
        THEN [p |-> s3, ret |-> <<>>, isnil |-> TRUE, err |-> TRUE,
              plaintext |-> plaintext, tagP |-> tagP]
        ELSE [p |-> s3, ret |-> sliceForAppend(dst, plaintext), isnil |-> FALSE,
              err |-> FALSE, plaintext |-> plaintext, tagP |-> tagP]

\* Open that returns the error before ratcheting.
OpenRatchetOnSuccess(st, label, dst, input) ==
    LET ciphertext == Take(input, BLen(input) - TagLen)
        tag == Drop(input, BLen(input) - TagLen)
        s1 == combine(st, opAuthCrypt, <<Bytes(label), leftEncode(BLen(ciphertext) * 8)>>)
        dek == expand(s1, LabelDek, 16)
        dak == expand(s1, LabelDak, 16)
        plaintext == XORKeyStream(dek, tag, ciphertext)
        auth == polyvalAuth(dak, plaintext)
        s2 == WriteAuth(s1, auth)
        tagP == expand(s2, LabelTag, TagLen)
        s3 == ratchet(s2)
    IN  IF tag # tagP
        THEN [p |-> s2, ret |-> <<>>, isnil |-> TRUE, err |-> TRUE,
              plaintext |-> plaintext, tagP |-> tagP]
        ELSE [p |-> s3, ret |-> sliceForAppend(dst, plaintext), isnil |-> FALSE,
              err |-> FALSE, plaintext |-> plaintext, tagP |-> tagP]

\* Open that restores the transcript it started from when the tag is invalid.
OpenRollback(st, label, dst, input) ==
    LET ciphertext == Take(input, BLen(input) - TagLen)
        tag == Drop(input, BLen(input) - TagLen)
        s1 == combine(st, opAuthCrypt, <<Bytes(label), leftEncode(BLen(ciphertext) * 8)>>)
        dek == expand(s1, LabelDek, 16)
        dak == expand(s1, LabelDak, 16)
        plaintext == XORKeyStream(dek, tag, ciphertext)
        auth == polyvalAuth(dak, plaintext)
        s2 == WriteAuth(s1, auth)
        tagP == expand(s2, LabelTag, TagLen)
        s3 == ratchet(s2)
    IN  IF tag # tagP
        THEN [p |-> st, ret |-> <<>>, isnil |-> TRUE, err |-> TRUE,
              plaintext |-> plaintext, tagP |-> tagP]
        ELSE [p |-> s3, ret |-> sliceForAppend(dst, plaintext), isnil |-> FALSE,
              err |-> FALSE, plaintext |-> plaintext, tagP |-> tagP]

\* Open that returns the decrypted bytes along with the error.
OpenReturningPlaintext(st, label, dst, input) ==
    LET ciphertext == Take(input, BLen(input) - TagLen)
        tag == Drop(input, BLen(input) - TagLen)
        s1 == combine(st, opAuthCrypt, <<Bytes(label), leftEncode(BLen(ciphertext) * 8)>>)
        dek == expand(s1, LabelDek, 16)
        dak == expand(s1, LabelDak, 16)
        plaintext == XORKeyStream(dek, tag, ciphertext)
        auth == polyvalAuth(dak, plaintext)
        s2 == WriteAuth(s1, auth)
        tagP == expand(s2, LabelTag, TagLen)
        s3 == ratchet(s2)
    IN  IF tag # tagP
        THEN [p |-> s3, ret |-> sliceForAppend(dst, plaintext), isnil |-> FALSE, err |-> TRUE,
              plaintext |-> plaintext, tagP |-> tagP]
        ELSE [p |-> s3, ret |-> sliceForAppend(dst, plaintext), isnil |-> FALSE,
              err |-> FALSE, plaintext |-> plaintext, tagP |-> tagP]

\* Open that splits its input only after writing the label to the transcript.
OpenPanicLate(st, label, dst, input) ==
    LET s0 == combine(st, opAuthCrypt, <<Bytes(label)>>)
        ciphertext == Take(input, BLen(input) - TagLen)
        tag == Drop(input, BLen(input) - TagLen)
        s1 == combine(st, opAuthCrypt, <<Bytes(label), leftEncode(BLen(ciphertext) * 8)>>)
        dek == expand(s1, LabelDek, 16)
        dak == expand(s1, LabelDak, 16)
        plaintext == XORKeyStream(dek, tag, ciphertext)
        auth == polyvalAuth(dak, plaintext)
        s2 == WriteAuth(s1, auth)
        tagP == expand(s2, LabelTag, TagLen)
        s3 == ratchet(s2)
    IN  IF BLen(input) < TagLen
        THEN [p |-> s0, ret |-> <<>>, isnil |-> TRUE, err |-> FALSE,
              plaintext |-> <<>>, tagP |-> <<>>, panic |-> TRUE]
        ELSE IF tag # tagP
        THEN [p |-> s3, ret |-> <<>>, isnil |-> TRUE, err |-> TRUE,
              plaintext |-> plaintext, tagP |-> tagP, panic |-> FALSE]
        ELSE [p |-> s3, ret |-> sliceForAppend(dst, plaintext), isnil |-> FALSE,
              err |-> FALSE, plaintext |-> plaintext, tagP |-> tagP, panic |-> FALSE]

\* Open returns (ret, nil) or (nil, ErrInvalidCiphertext); plaintext and tagP are
\* its local variables.  panic: slicing an input of fewer than TagLen bytes
\* panicked (slice bounds out of range) and Open returned nothing.  steps: the
\* steps the tag comparison took.
Open(st, label, dst, input) ==
    LET ciphertext == Take(input, BLen(input) - TagLen)
        tag == Drop(input, BLen(input) - TagLen)
        s1 == combine(st, opAuthCrypt, <<Bytes(label), leftEncode(BLen(ciphertext) * 8)>>)
        dek == expand(s1, LabelDek, 16)
        dak == expand(s1, LabelDak, 16)
        plaintext == XORKeyStream(dek, tag, ciphertext)
        auth == polyvalAuth(dak, plaintext)
        s2 == WriteAuth(s1, auth)
        tagP == expand(s2, LabelTag, TagLen)
        s3 == ratchet(s2)
        compared == ConstantTimeCompare(tag, tagP)
    IN  IF BLen(input) < TagLen
        THEN [p |-> st, ret |-> <<>>, isnil |-> TRUE, err |-> FALSE,
              plaintext |-> <<>>, tagP |-> <<>>, panic |-> TRUE, steps |-> 0]
        ELSE IF compared.v = 0
        THEN [p |-> s3, ret |-> <<>>, isnil |-> TRUE, err |-> TRUE,
              plaintext |-> plaintext, tagP |-> tagP, panic |-> FALSE,
              steps |-> compared.steps]
        ELSE [p |-> s3, ret |-> sliceForAppend(dst, plaintext), isnil |-> FALSE,
              err |-> FALSE, plaintext |-> plaintext, tagP |-> tagP, panic |-> FALSE,
              steps |-> compared.steps]

(***************************************************************************)
(* The same operations with the memory of their buffers.  src is what the  *)
(* source buffer holds (without the tag, for Open), tag what the tag's     *)
(* sixteen bytes hold, dst what the bytes appended to dst hold.  With      *)
(* dst = src[:0] (inplace) the bytes appended to dst are the bytes of src. *)
(***************************************************************************)
Memory(src, tag, inplace) ==
    [src |-> src, tag |-> tag, dst |-> Bytes(Zeros(BLen(src))), inplace |-> inplace]

Load(m, name) == IF name = "dst" /\ m.inplace THEN m.src ELSE m[name]

Store(m, name, b) ==
    IF name = "dst" /\ m.inplace THEN [m EXCEPT !.src = b] ELSE [m EXCEPT ![name] = b]

\* Encrypt that computes the authenticator after the CTR pass.
EncryptIntoAuthLate(st, label, m0) ==
    LET s1 == combine(st, opCrypt,
                      <<Bytes(label), leftEncode(BLen(Load(m0, "src")) * 8)>>)
        dek == expand(s1, LabelDek, 16)
        dak == expand(s1, LabelDak, 16)
        m1 == Store(m0, "dst", XORKeyStream(dek, ZeroIV, Load(m0, "src")))
        auth == polyvalAuth(dak, Load(m1, "src"))
        s2 == WriteAuth(s1, auth)
    IN  [p |-> ratchet(s2), ret |-> Load(m1, "dst"), m |-> m1]

EncryptInto(st, label, m0) ==
    LET s1 == combine(st, opCrypt,
                      <<Bytes(label), leftEncode(BLen(Load(m0, "src")) * 8)>>)
        dek == expand(s1, LabelDek, 16)
        dak == expand(s1, LabelDak, 16)
        auth == polyvalAuth(dak, Load(m0, "src"))
        s2 == WriteAuth(s1, auth)
        m1 == Store(m0, "dst", XORKeyStream(dek, ZeroIV, Load(m0, "src")))
    IN  [p |-> ratchet(s2), ret |-> Load(m1, "dst"), m |-> m1]

DecryptInto(st, label, m0) ==
    LET s1 == combine(st, opCrypt,
                      <<Bytes(label), leftEncode(BLen(Load(m0, "src")) * 8)>>)
        dek == expand(s1, LabelDek, 16)
        dak == expand(s1, LabelDak, 16)
        m1 == Store(m0, "dst", XORKeyStream(dek, ZeroIV, Load(m0, "src")))
        auth == polyvalAuth(dak, Load(m1, "dst"))
        s2 == WriteAuth(s1, auth)
    IN  [p |-> ratchet(s2), ret |-> Load(m1, "dst"), m |-> m1]

SealInto(st, label, m0) ==
    LET s1 == combine(st, opAuthCrypt,
                      <<Bytes(label), leftEncode(BLen(Load(m0, "src")) * 8)>>)
        dek == expand(s1, LabelDek, 16)
        dak == expand(s1, LabelDak, 16)
        auth == polyvalAuth(dak, Load(m0, "src"))
        s2 == WriteAuth(s1, auth)
        m1 == Store(m0, "tag", expand(s2, LabelTag, TagLen))
        m2 == Store(m1, "dst", XORKeyStream(dek, Load(m1, "tag"), Load(m1, "src")))
    IN  [p |-> ratchet(s2), ret |-> Cat(Load(m2, "dst"), Load(m2, "tag")), m |-> m2]

\* Open that clears the bytes it appended to dst when the tag is not valid.
OpenIntoClearing(st, label, m0) ==
    LET s1 == combine(st, opAuthCrypt,
                      <<Bytes(label), leftEncode(BLen(Load(m0, "src")) * 8)>>)
        dek == expand(s1, LabelDek, 16)
        dak == expand(s1, LabelDak, 16)
        m1 == Store(m0, "dst", XORKeyStream(dek, Load(m0, "tag"), Load(m0, "src")))
        auth == polyvalAuth(dak, Load(m1, "dst"))
        s2 == WriteAuth(s1, auth)
        tagP == expand(s2, LabelTag, TagLen)
        s3 == ratchet(s2)
    IN  IF ConstantTimeCompare(Load(m1, "tag"), tagP).v = 0
        THEN [p |-> s3, ret |-> <<>>, isnil |-> TRUE, err |-> TRUE,
              plaintext |-> Load(m1, "dst"), tagP |-> tagP, panic |-> FALSE,
              m |-> Store(m1, "dst", Bytes(Zeros(BLen(Load(m1, "dst")))))]
        ELSE [p |-> s3, ret |-> Load(m1, "dst"), isnil |-> FALSE, err |-> FALSE,
              plaintext |-> Load(m1, "dst"), tagP |-> tagP, panic |-> FALSE, m |-> m1]

OpenInto(st, label, m0) ==
    LET s1 == combine(st, opAuthCrypt,
                      <<Bytes(label), leftEncode(BLen(Load(m0, "src")) * 8)>>)
        dek == expand(s1, LabelDek, 16)
        dak == expand(s1, LabelDak, 16)
        m1 == Store(m0, "dst", XORKeyStream(dek, Load(m0, "tag"), Load(m0, "src")))
        auth == polyvalAuth(dak, Load(m1, "dst"))
        s2 == WriteAuth(s1, auth)
        tagP == expand(s2, LabelTag, TagLen)
        s3 == ratchet(s2)
    IN  IF ConstantTimeCompare(Load(m1, "tag"), tagP).v = 0
        THEN [p |-> s3, ret |-> <<>>, isnil |-> TRUE, err |-> TRUE,
              plaintext |-> Load(m1, "dst"), tagP |-> tagP, panic |-> FALSE, m |-> m1]
        ELSE [p |-> s3, ret |-> Load(m1, "dst"), isnil |-> FALSE, err |-> FALSE,
              plaintext |-> Load(m1, "dst"), tagP |-> tagP, panic |-> FALSE, m |-> m1]

(***************************************************************************)
(* internal/aes: CTR for short inputs.  A counter block is the tuple of its *)
(* sixteen bytes; the block cipher is an ideal keyed function of the block. *)
(***************************************************************************)
BlockSize == 16

\* block.Encrypt(tmp, ctr)
BlockEncrypt(key, ctr) == Stream("AES", Bytes(key), Bytes(ctr), BlockSize)

\* The counter increment without the carry: only the last byte counts.
IncrementLastByte(ctr) == [ctr EXCEPT ![BlockSize] = (@ + 1) % 256]

\* for i := len(ctr) - 1; i >= 0; i-- { ctr[i]++; if ctr[i] != 0 { break } }
\* (ctr[i] of the code is ctr[i + 1] here.)
RECURSIVE IncrementFrom(_, _)
IncrementFrom(ctr, i) ==
    IF i < 0 THEN ctr
    ELSE LET c == [ctr EXCEPT ![i + 1] = (@ + 1) % 256]
         IN  IF c[i + 1] # 0 THEN c ELSE IncrementFrom(c, i - 1)

Increment(ctr) == IncrementFrom(ctr, Len(ctr) - 1)

Min(a, b) == IF a <= b THEN a ELSE b

\* The loop of ctrSmall: dst is what has been written, src what remains to be
\* read, encryptions the calls of block.Encrypt made.
RECURSIVE ctrSmallLoop(_, _, _, _, _)
ctrSmallLoop(key, ctr, dst, src, encryptions) ==
    LET tmp == BlockEncrypt(key, ctr)
        remain == Min(BLen(src), BlockSize)
        written == Cat(dst, XorBytes(Take(src, remain), Take(tmp, remain)))
        rest == Drop(src, remain)
    IN  IF BLen(rest) = 0
        THEN [dst |-> written, encryptions |-> encryptions + 1]
        ELSE ctrSmallLoop(key, Increment(ctr), written, rest, encryptions + 1)

ctrSmall(key, iv, src) == ctrSmallLoop(key, iv, <<>>, src, 0)

\* iv + k modulo 2^128, the counter block of block k of the CTR mode of the
\* standard library: the addition of the carry c to the bytes from j down.
RECURSIVE AddFrom(_, _, _)
AddFrom(ctr, j, c) ==
    IF j = 0 \/ c = 0 THEN ctr
    ELSE AddFrom([ctr EXCEPT ![j] = (@ + c) % 256], j - 1, (ctr[j] + c) \div 256)

\* cipher.NewCTR(block, iv).XORKeyStream(dst, src): block k of src is XORed
\* with the encryption of iv + k, the last, partial block with its first bytes.
NewCTR(key, iv, src) ==
    LET blocks == (BLen(src) + BlockSize - 1) \div BlockSize
        stream == Concat([k \in 1..blocks |->
                             BlockEncrypt(key, AddFrom(iv, BlockSize, k - 1))] \o <<>>)
    IN  XorBytes(src, Take(stream, BLen(src)))

\* aes.CTR(key, iv, dst, src) with len(dst) = len(src)
CTR(key, iv, src) ==
    IF BLen(src) < BlockSize * 8
    THEN ctrSmall(key, iv, src)
    ELSE [dst |-> NewCTR(key, iv, src), encryptions |-> 0]

(***************************************************************************)
(* Clone and serialization.  The marshalled form of the cSHAKE128 engine    *)
(* is opaque; it carries the engine's kind and rate, what it absorbed, and  *)
(* the customization it returns to on Reset.  AppendBinary appends it to b. *)
(***************************************************************************)
RateCSHAKE128 == 168

\* Clone that copies the customization but not the bytes absorbed.
CloneFresh(st) == Reset(st)

Clone(st) == st

AppendBinary(st, b) ==
    [prefix |-> b, complete |-> TRUE, magic |-> "cSHAKE", rate |-> RateCSHAKE128,
     custom |-> st.custom, transcript |-> st.transcript]

MarshalBinary(st) == AppendBinary(st, <<>>)

\* UnmarshalBinary that restores the bytes absorbed but keeps the receiver's own
\* customization.
UnmarshalKeepingDomain(st, data) ==
    IF data.prefix # <<>> \/ ~data.complete \/ data.magic # "cSHAKE"
           \/ data.rate # RateCSHAKE128
    THEN [p |-> st, err |-> TRUE]
    ELSE [p |-> [custom |-> st.custom, transcript |-> data.transcript], err |-> FALSE]

\* err is ErrInvalidState; the engine rejects data that is cut short, or is the
\* state of another kind of engine or of an engine of another rate, and
\* otherwise takes over everything the data carries.
UnmarshalBinary(st, data) ==
    IF data.prefix # <<>> \/ ~data.complete \/ data.magic # "cSHAKE"
           \/ data.rate # RateCSHAKE128
    THEN [p |-> st, err |-> TRUE]
    ELSE [p |-> [custom |-> data.custom, transcript |-> data.transcript], err |-> FALSE]

(***************************************************************************)
(* The system: two Protocol values and their callers.  Caller 1 (the        *)
(* sender) mixes, derives, encrypts and seals; caller 2 (the receiver)      *)
(* mixes, and decrypts and opens what the sender last produced, as it is    *)
(* or with one byte altered.                                                *)
(*   p[i]     the Protocol i: its customization and its transcript          *)
(*   last[i]  the most recent call on Protocol i: its arguments, the state  *)
(*            it started from, and what it returned                         *)
(*   nmix[i]  the number of Mix calls made on Protocol i                    *)
(*   nops[i]  the number of ratcheting calls made on Protocol i             *)
(*   trace[i] the calls that made Protocol i what it is, in call order,     *)
(*            starting with its construction                                *)
(***************************************************************************)
VARIABLES p, last, nmix, nops, trace

vars == <<p, last, nmix, nops, trace>>

Procs == {1, 2}
Sender == 1
Receiver == 2
Domains == {<<120>>, <<121>>}
Labels == {<<97>>, <<97, 98>>}
Keys == {<<>>, <<7>>}
Dsts == {<<221>>}
Masks == {128}
Msg(n) == [i \in 1..n |-> 103 + i] \o <<>>
Plaintexts == {Msg(n) : n \in 0..MaxLen}

Call(op, label, dst, input, pre, ret) ==
    [op |-> op, label |-> label, dst |-> dst, input |-> input, pre |-> pre,
     ret |-> ret, isnil |-> FALSE, err |-> FALSE, plaintext |-> <<>>, tagP |-> <<>>,
     n |-> 0, panic |-> FALSE, spare |-> <<>>, inplace |-> FALSE, steps |-> 0]

\* The record of a Derive call of n bytes, with the result r that Derive produced.
CallOfDerive(label, dst, n, pre, r) ==
    [Call("Derive", label, dst, <<>>, pre, r.ret) EXCEPT !.n = n]

\* The record of an Open call, with the result r that Open produced.
CallOfOpen(label, dst, input, pre, r) ==
    [op |-> "Open", label |-> label, dst |-> dst, input |-> input, pre |-> pre,
     ret |-> r.ret, isnil |-> r.isnil, err |-> r.err, plaintext |-> r.plaintext,
     tagP |-> r.tagP, n |-> 0, panic |-> FALSE, spare |-> <<>>, inplace |-> FALSE,
     steps |-> 0]

Init ==
    /\ p \in {[i \in Procs |-> NewProtocol(IF i = Sender THEN <<120>> ELSE d)] :
                 d \in Domains}
    /\ last = [i \in Procs |->
                 Call("NewProtocol", <<>>, <<>>, <<>>, p[i], <<>>)]
    /\ nmix = [i \in Procs |-> 0]
    /\ nops = [i \in Procs |-> 0]
    /\ trace = [i \in Procs |-> <<last[i]>>]

\* The bytes the receiver can hand to Decrypt or Open: what the sender's latest
\* Encrypt or Seal returned (without the dst prefix), as it is (k = 0) or with
\* byte k XORed with the mask m.
InFlight == Drop(last[Sender].ret, BLen(last[Sender].dst))

XorAt(c, k, m) == XorBytes(c, Bytes([Zeros(BLen(c)) EXCEPT ![k] = m]))

Tamper(c, k, m) == IF k = 0 THEN c ELSE XorAt(c, k, m)

Tamperings(c) == {<<0, 0>>} \cup ((1..BLen(c)) \X Masks)

\* Returns for protocols that share one engine: every protocol is left in state st.
ReturnsShared(i, st, call) ==
    /\ p' = [j \in Procs |-> st]
    /\ last' = [last EXCEPT ![i] = call]
    /\ trace' = [trace EXCEPT ![i] = Append(@, call)]

\* Protocol i is left in state st and the call is recorded.
Returns(i, st, call) ==
    /\ p' = [p EXCEPT ![i] = st]
    /\ last' = [last EXCEPT ![i] = call]
    /\ trace' = [trace EXCEPT ![i] = Append(@, call)]

Ratcheting(i) ==
    /\ nops[i] < MaxOps
    /\ nops' = [nops EXCEPT ![i] = @ + 1]
    /\ UNCHANGED nmix

CallMix(i) ==
    /\ nmix[i] < MaxMix
    /\ nmix' = [nmix EXCEPT ![i] = @ + 1]
    /\ UNCHANGED nops
    /\ \E label \in Labels, input \in Keys :
        Returns(i, Mix(p[i], label, Bytes(input)),
                Call("Mix", label, <<>>, Bytes(input), p[i], <<>>))

CallDerive(i) ==
    /\ Ratcheting(i)
    /\ \E label \in Labels, dst \in Dsts, n \in 0..MaxLen :
        LET r == Derive(p[i], label, Bytes(dst), n)
        IN  Returns(i, r.p, CallOfDerive(label, Bytes(dst), n, p[i], r))

CallEncrypt(i) ==
    /\ Ratcheting(i)
    /\ \E label \in Labels, dst \in Dsts, plaintext \in Plaintexts :
        LET r == Encrypt(p[i], label, Bytes(dst), Bytes(plaintext))
        IN  Returns(i, r.p,
                    Call("Encrypt", label, Bytes(dst), Bytes(plaintext), p[i], r.ret))

CallDecrypt(i) ==
    /\ Ratcheting(i)
    /\ last[Sender].op = "Encrypt"
    /\ \E label \in Labels, dst \in Dsts, t \in Tamperings(InFlight) :
            LET ciphertext == Tamper(InFlight, t[1], t[2])
                r == Decrypt(p[i], label, Bytes(dst), ciphertext)
            IN  Returns(i, r.p,
                        Call("Decrypt", label, Bytes(dst), ciphertext, p[i], r.ret))

CallSeal(i) ==
    /\ Ratcheting(i)
    /\ \E label \in Labels, dst \in Dsts, plaintext \in Plaintexts :
        LET r == Seal(p[i], label, Bytes(dst), Bytes(plaintext))
        IN  Returns(i, r.p,
                    Call("Seal", label, Bytes(dst), Bytes(plaintext), p[i], r.ret))

CallOpen(i) ==
    /\ Ratcheting(i)
    /\ last[Sender].op = "Seal"
    /\ \E label \in Labels, dst \in Dsts, t \in Tamperings(InFlight) :
            LET input == Tamper(InFlight, t[1], t[2])
                r == Open(p[i], label, Bytes(dst), input)
            IN  /\ BLen(input) >= TagLen
                /\ Returns(i, r.p, CallOfOpen(label, Bytes(dst), input, p[i], r))

Next ==
    \/ \E i \in Procs : CallMix(i)
    \/ CallDerive(Sender)
    \/ CallEncrypt(Sender)
    \/ CallSeal(Sender)
    \/ CallDecrypt(Receiver)
    \/ CallOpen(Receiver)

Spec == Init /\ [][Next]_vars

(***************************************************************************)
(* A pair of protocols, of different domains, used side by side.  Either protocol may be mixed     *)
(* into, derived from, and used to encrypt, seal, decrypt and open; the     *)
(* second, while fresh (or a fresh clone), may be replaced by a clone of    *)
(* the first or be loaded with the first's marshalled state, intact or      *)
(* malformed.  The messages decrypted and opened are those of a peer: one   *)
(* that is in the state of a new protocol of the first domain, or one that  *)
(* is in the state of the protocol that decrypts or opens.                  *)
(***************************************************************************)
PeerLabel == <<97>>
PeerPlaintext == Bytes(Msg(MaxLen))
PeerEncrypted(st) == Encrypt(st, PeerLabel, <<>>, PeerPlaintext).ret
PeerSealed(st) == Seal(st, PeerLabel, <<>>, PeerPlaintext).ret
PeerStates(i) == {NewProtocol(<<120>>), p[i]}

PairEncrypt(i) ==
    /\ Ratcheting(i)
    /\ LET r == Encrypt(p[i], PeerLabel, <<>>, PeerPlaintext)
       IN  Returns(i, r.p, Call("Encrypt", PeerLabel, <<>>, PeerPlaintext, p[i], r.ret))

PairDecrypt(i) ==
    /\ Ratcheting(i)
    /\ \E st \in PeerStates(i) :
        LET ciphertext == PeerEncrypted(st)
            r == Decrypt(p[i], PeerLabel, <<>>, ciphertext)
        IN  Returns(i, r.p, Call("Decrypt", PeerLabel, <<>>, ciphertext, p[i], r.ret))

PairSeal(i) ==
    /\ Ratcheting(i)
    /\ LET r == Seal(p[i], PeerLabel, <<>>, PeerPlaintext)
       IN  Returns(i, r.p, Call("Seal", PeerLabel, <<>>, PeerPlaintext, p[i], r.ret))

PairOpen(i) ==
    /\ Ratcheting(i)
    /\ \E st \in PeerStates(i) :
        LET input == PeerSealed(st)
            r == Open(p[i], PeerLabel, <<>>, input)
        IN  Returns(i, r.p, CallOfOpen(PeerLabel, <<>>, input, p[i], r))

\* The second protocol has not been used since it was constructed or cloned.
Unused == last[Receiver].op \in {"NewProtocol", "Clone"}

\* q = p.Clone(): the second protocol becomes a clone of the first, with the
\* first's history.
CallClone ==
    /\ Unused
    /\ LET call == Call("Clone", <<>>, <<>>, <<>>, p[Sender], <<>>)
       IN  /\ p' = [p EXCEPT ![Receiver] = Clone(p[Sender])]
           /\ last' = [last EXCEPT ![Receiver] = call]
           /\ trace' = [trace EXCEPT ![Receiver] = Append(trace[Sender], call)]
    /\ nmix' = [nmix EXCEPT ![Receiver] = nmix[Sender]]
    /\ nops' = [nops EXCEPT ![Receiver] = nops[Sender]]

\* What can be handed to UnmarshalBinary: the marshalled state of the first
\* protocol, intact, cut short, or as the state of an engine of another kind
\* or rate.
Blobs ==
    LET data == MarshalBinary(p[Sender])
    IN  {data,
         [data EXCEPT !.complete = FALSE],
         [data EXCEPT !.magic = "SHAKE"],
         [data EXCEPT !.rate = 136]}

\* The second protocol is loaded with data.  When the load succeeds it has the
\* first's history; when it fails its caller makes no further calls on it.
CallUnmarshalBinary ==
    /\ Unused
    /\ \E data \in Blobs :
        LET r == UnmarshalBinary(p[Receiver], data)
            call == [Call("UnmarshalBinary", <<>>, <<>>, <<data>>, p[Receiver], <<>>)
                        EXCEPT !.err = r.err]
        IN  /\ p' = [p EXCEPT ![Receiver] = r.p]
            /\ last' = [last EXCEPT ![Receiver] = call]
            /\ trace' = [trace EXCEPT ![Receiver] =
                            Append(IF r.err THEN @ ELSE trace[Sender], call)]
            /\ nmix' = [nmix EXCEPT ![Receiver] = IF r.err THEN MaxMix ELSE nmix[Sender]]
            /\ nops' = [nops EXCEPT ![Receiver] = IF r.err THEN MaxOps ELSE nops[Sender]]

NextPair ==
    \/ \E i \in Procs : CallMix(i)
    \/ \E i \in Procs : CallDerive(i)
    \/ \E i \in Procs : PairEncrypt(i)
    \/ \E i \in Procs : PairDecrypt(i)
    \/ \E i \in Procs : PairSeal(i)
    \/ \E i \in Procs : PairOpen(i)
    \/ CallClone
    \/ CallUnmarshalBinary

\* The two protocols are constructed with different domains: they are in equal
\* states only once the second is a copy of the first.
InitPair == Init /\ p[Sender].custom # p[Receiver].custom

SpecPair == InitPair /\ [][NextPair]_vars

(***************************************************************************)
(* Sequences of Mix calls.  Two protocols of the same domain are each       *)
(* mixed into up to MaxSeq times, with labels and inputs of which some are  *)
(* splits of others ("ab","c" and "a","bc"; "bc" and "b","c") and one       *)
(* input is "c" followed by the bytes that Mix("a","c") appends.            *)
(***************************************************************************)
MaxSeq == 2
MixLabels == {<<97>>, <<97, 98>>}
MixInputs == {<<>>, <<98>>, <<99>>, <<98, 99>>, <<99, 1, 1, 8, 97, 1, 8, 99>>}

MixAny(i) ==
    /\ nmix[i] < MaxSeq
    /\ nmix' = [nmix EXCEPT ![i] = @ + 1]
    /\ UNCHANGED nops
    /\ \E label \in MixLabels, input \in MixInputs :
        Returns(i, Mix(p[i], label, Bytes(input)),
                Call("Mix", label, <<>>, Bytes(input), p[i], <<>>))

InitMix == Init /\ p[Sender].custom = p[Receiver].custom

NextMix == \E i \in Procs : MixAny(i)

SpecMix == InitMix /\ [][NextMix]_vars

(***************************************************************************)
(* One protocol used for a chain of calls: up to MaxChain calls of any     *)
(* operation on the first protocol, one after the other.                   *)
(***************************************************************************)
MaxChain == 3

ChainMixing(i) ==
    /\ nmix[i] + nops[i] < MaxChain
    /\ nmix' = [nmix EXCEPT ![i] = @ + 1]
    /\ UNCHANGED nops

ChainRatcheting(i) ==
    /\ nmix[i] + nops[i] < MaxChain
    /\ nops' = [nops EXCEPT ![i] = @ + 1]
    /\ UNCHANGED nmix

ChainMix(i) ==
    /\ ChainMixing(i)
    /\ \E label \in Labels, input \in Keys :
        Returns(i, Mix(p[i], label, Bytes(input)),
                Call("Mix", label, <<>>, Bytes(input), p[i], <<>>))

ChainDerive(i) ==
    /\ ChainRatcheting(i)
    /\ \E label \in Labels, dst \in Dsts, n \in 0..MaxLen :
        LET r == Derive(p[i], label, Bytes(dst), n)
        IN  Returns(i, r.p, CallOfDerive(label, Bytes(dst), n, p[i], r))

ChainEncrypt(i) ==
    /\ ChainRatcheting(i)
    /\ LET r == Encrypt(p[i], PeerLabel, <<>>, PeerPlaintext)
       IN  Returns(i, r.p, Call("Encrypt", PeerLabel, <<>>, PeerPlaintext, p[i], r.ret))

ChainDecrypt(i) ==
    /\ ChainRatcheting(i)
    /\ \E st \in PeerStates(i) :
        LET ciphertext == PeerEncrypted(st)
            r == Decrypt(p[i], PeerLabel, <<>>, ciphertext)
        IN  Returns(i, r.p, Call("Decrypt", PeerLabel, <<>>, ciphertext, p[i], r.ret))

ChainSeal(i) ==
    /\ ChainRatcheting(i)
    /\ LET r == Seal(p[i], PeerLabel, <<>>, PeerPlaintext)
       IN  Returns(i, r.p, Call("Seal", PeerLabel, <<>>, PeerPlaintext, p[i], r.ret))

ChainOpen(i) ==
    /\ ChainRatcheting(i)
    /\ \E st \in PeerStates(i) :
        LET input == PeerSealed(st)
            r == Open(p[i], PeerLabel, <<>>, input)
        IN  Returns(i, r.p, CallOfOpen(PeerLabel, <<>>, input, p[i], r))

NextChain ==
    \/ ChainMix(Sender)
    \/ ChainDerive(Sender)
    \/ ChainEncrypt(Sender)
    \/ ChainDecrypt(Sender)
    \/ ChainSeal(Sender)
    \/ ChainOpen(Sender)

SpecChain == Init /\ [][NextChain]_vars

(***************************************************************************)
(* One protocol whose caller also passes arguments that make Derive and    *)
(* Open panic, recovers from the panic and goes on using the protocol.     *)
(***************************************************************************)
NegativeLens == {-200, -1}
ShortLens == {0, 1, TagLen - 1}

\* Derive(label, dst, n) with n of either sign.
FaultDerive(i) ==
    /\ ChainRatcheting(i)
    /\ \E dst \in Dsts, n \in NegativeLens \cup (0..MaxLen) :
        LET r == Derive(p[i], PeerLabel, Bytes(dst), n)
        IN  Returns(i, r.p,
                    [CallOfDerive(PeerLabel, Bytes(dst), n, p[i], r)
                        EXCEPT !.panic = r.panic])

\* What the caller hands to Open: a sealed message, or its first bytes.
FaultInputs(i) ==
    UNION {{PeerSealed(st)} \cup {Take(PeerSealed(st), k) : k \in ShortLens} :
             st \in PeerStates(i)}

\* Open(label, dst, input) with inputs of any length.
FaultOpen(i) ==
    /\ ChainRatcheting(i)
    /\ \E dst \in {<<>>} \cup {Bytes(d) : d \in Dsts}, input \in FaultInputs(i) :
        LET r == Open(p[i], PeerLabel, dst, input)
        IN  Returns(i, r.p,
                    [CallOfOpen(PeerLabel, dst, input, p[i], r)
                        EXCEPT !.panic = r.panic])

NextFault ==
    \/ ChainMix(Sender)
    \/ FaultDerive(Sender)
    \/ FaultOpen(Sender)

SpecFault == Init /\ [][NextFault]_vars

(***************************************************************************)
(* Two protocols of one domain whose callers derive into slices with spare *)
(* capacity, which holds zeros or other bytes.                             *)
(***************************************************************************)
Spares == {Bytes(Zeros(k)) : k \in 0..MaxLen} \cup {Bytes(Msg(k)) : k \in 1..MaxLen}

DstDerive(i) ==
    /\ Ratcheting(i)
    /\ \E data \in {<<>>} \cup {Bytes(d) : d \in Dsts}, spare \in Spares, n \in 0..MaxLen :
        LET r == DeriveInto(p[i], PeerLabel, Slice(data, spare), n)
        IN  Returns(i, r.p,
                    [CallOfDerive(PeerLabel, data, n, p[i], r) EXCEPT !.spare = spare])

NextDst ==
    \/ \E i \in Procs : CallMix(i)
    \/ \E i \in Procs : DstDerive(i)

SpecDst == InitMix /\ [][NextDst]_vars

(***************************************************************************)
(* The length encodings applied to 64-bit values: each of two callers      *)
(* encodes one value, and the call with its result is recorded.            *)
(***************************************************************************)
\* The uint64 with k significant bytes: the byte hi, then k - 1 bytes lo.
Word(k, hi, lo) == [j \in 1..8 |-> IF j < 9 - k THEN 0 ELSE IF j = 9 - k THEN hi ELSE lo]

Words ==
    {Zeros(8)} \cup {Word(k, hi, lo) : k \in 1..8, hi \in {1, 48, 128, 255}, lo \in {0, 1, 255}}

CallLeftEncode(i) ==
    /\ last[i].op = "NewProtocol"
    /\ \E value \in Words :
        last' = [last EXCEPT ![i] = Call("leftEncode", <<>>, <<>>, value, p[i],
                                         leftEncodeUint64(value))]
    /\ UNCHANGED <<p, nmix, nops, trace>>

CallRightEncode(i) ==
    /\ last[i].op = "NewProtocol"
    /\ \E value \in Words :
        last' = [last EXCEPT ![i] = Call("rightEncode", <<>>, <<>>, value, p[i],
                                         rightEncodeUint64(value))]
    /\ UNCHANGED <<p, nmix, nops, trace>>

NextEncode ==
    \/ \E i \in Procs : CallLeftEncode(i)
    \/ \E i \in Procs : CallRightEncode(i)

SpecEncode == InitMix /\ [][NextEncode]_vars

(***************************************************************************)
(* Two protocols of one domain whose callers encrypt, decrypt, seal and    *)
(* open either in place (dst = src[:0]) or into a buffer of their own.     *)
(***************************************************************************)
Inplace(call, inplace) == [call EXCEPT !.inplace = inplace]

AliasEncrypt(i) ==
    /\ Ratcheting(i)
    /\ \E plaintext \in Plaintexts, inplace \in BOOLEAN :
        LET r == EncryptInto(p[i], PeerLabel, Memory(Bytes(plaintext), <<>>, inplace))
        IN  Returns(i, r.p,
                    Inplace(Call("Encrypt", PeerLabel, <<>>, Bytes(plaintext), p[i], r.ret),
                            inplace))

AliasDecrypt(i) ==
    /\ Ratcheting(i)
    /\ \E st \in PeerStates(i), inplace \in BOOLEAN :
        LET ciphertext == PeerEncrypted(st)
            r == DecryptInto(p[i], PeerLabel, Memory(ciphertext, <<>>, inplace))
        IN  Returns(i, r.p,
                    Inplace(Call("Decrypt", PeerLabel, <<>>, ciphertext, p[i], r.ret),
                            inplace))

AliasSeal(i) ==
    /\ Ratcheting(i)
    /\ \E plaintext \in Plaintexts, inplace \in BOOLEAN :
        LET r == SealInto(p[i], PeerLabel,
                          Memory(Bytes(plaintext), Bytes(Zeros(TagLen)), inplace))
        IN  Returns(i, r.p,
                    Inplace(Call("Seal", PeerLabel, <<>>, Bytes(plaintext), p[i], r.ret),
                            inplace))

AliasOpen(i) ==
    /\ Ratcheting(i)
    /\ \E st \in PeerStates(i), inplace \in BOOLEAN :
        LET input == PeerSealed(st)
            r == OpenInto(p[i], PeerLabel,
                          Memory(Take(input, BLen(input) - TagLen),
                                 Drop(input, BLen(input) - TagLen), inplace))
        IN  Returns(i, r.p, Inplace(CallOfOpen(PeerLabel, <<>>, input, p[i], r), inplace))

NextAlias ==
    \/ \E i \in Procs : CallMix(i)
    \/ \E i \in Procs : AliasEncrypt(i)
    \/ \E i \in Procs : AliasDecrypt(i)
    \/ \E i \in Procs : AliasSeal(i)
    \/ \E i \in Procs : AliasOpen(i)

SpecAlias == InitMix /\ [][NextAlias]_vars

(***************************************************************************)
(* The time of the tag comparison.  The first protocol opens sealed        *)
(* messages, intact or with a byte of the ciphertext or of the tag         *)
(* altered; a second caller compares a tag with tags that first differ     *)
(* from it at each position.                                               *)
(***************************************************************************)
KnownTag == [k \in 1..TagLen |-> 16 + k]

\* KnownTag with byte k altered, and with the bytes from k on altered.
Guesses ==
    {KnownTag}
        \cup {[KnownTag EXCEPT ![k] = 0] : k \in 1..TagLen}
        \cup {[j \in 1..TagLen |-> IF j < k THEN KnownTag[j] ELSE 0] : k \in 1..TagLen}

TimedInputs(i) ==
    UNION {{Tamper(PeerSealed(st), k, 128) : k \in {0, 1, MaxLen + 1, MaxLen + TagLen}} :
             st \in PeerStates(i)}

TimedOpen(i) ==
    /\ Ratcheting(i)
    /\ \E input \in TimedInputs(i) :
        LET r == Open(p[i], PeerLabel, <<>>, input)
        IN  Returns(i, r.p,
                    [CallOfOpen(PeerLabel, <<>>, input, p[i], r) EXCEPT !.steps = r.steps])

CallCompare(i) ==
    /\ last[i].op = "NewProtocol"
    /\ \E guess \in Guesses :
        LET r == ConstantTimeCompare(Bytes(guess), Bytes(KnownTag))
        IN  last' = [last EXCEPT ![i] =
                        [Call("ConstantTimeCompare", <<>>, <<>>, Bytes(guess), p[i], <<>>)
                            EXCEPT !.steps = r.steps, !.err = (r.v = 0)]]
    /\ UNCHANGED <<p, nmix, nops, trace>>

NextTiming ==
    \/ CallMix(Sender)
    \/ TimedOpen(Sender)
    \/ CallCompare(Receiver)

SpecTiming == InitMix /\ [][NextTiming]_vars

(***************************************************************************)
(* One protocol whose expand is called directly, between Mix and Derive     *)
(* calls: up to MaxChain calls, one after the other.                        *)
(***************************************************************************)
ExpandLabels == {LabelPrf, LabelRatchet}
ExpandLens == {0, 1, TagLen, 32}

CallExpand(i) ==
    /\ ChainRatcheting(i)
    /\ \E label \in ExpandLabels, n \in ExpandLens :
        LET r == expandCall(p[i], label, n)
        IN  Returns(i, r.p, [Call("expand", label, <<>>, <<>>, p[i], r.ret) EXCEPT !.n = n])

NextExpand ==
    \/ ChainMix(Sender)
    \/ ChainDerive(Sender)
    \/ CallExpand(Sender)

SpecExpand == InitMix /\ [][NextExpand]_vars

(***************************************************************************)
(* A sender that encrypts and a receiver, in the same domain, that decrypts *)
(* what the sender's Encrypt returned, as it is or with one byte altered;   *)
(* afterwards each makes one further call.                                  *)
(***************************************************************************)
Fresh(i) == last[i].op \in {"NewProtocol", "Mix"}

TamperMix(i) ==
    /\ last[i].op = "NewProtocol"
    /\ nmix' = [nmix EXCEPT ![i] = @ + 1]
    /\ UNCHANGED nops
    /\ \E input \in Keys :
        Returns(i, Mix(p[i], PeerLabel, Bytes(input)),
                Call("Mix", PeerLabel, <<>>, Bytes(input), p[i], <<>>))

TamperEncrypt(i) ==
    /\ Fresh(i)
    /\ nops' = [nops EXCEPT ![i] = @ + 1]
    /\ UNCHANGED nmix
    /\ \E label \in Labels, dst \in Dsts, plaintext \in Plaintexts :
        LET r == Encrypt(p[i], label, Bytes(dst), Bytes(plaintext))
        IN  Returns(i, r.p,
                    Call("Encrypt", label, Bytes(dst), Bytes(plaintext), p[i], r.ret))

TamperDecrypt(i) ==
    /\ Fresh(i)
    /\ last[Sender].op = "Encrypt"
    /\ nops' = [nops EXCEPT ![i] = @ + 1]
    /\ UNCHANGED nmix
    /\ \E label \in Labels, dst \in Dsts, t \in Tamperings(InFlight) :
            LET ciphertext == Tamper(InFlight, t[1], t[2])
                r == Decrypt(p[i], label, Bytes(dst), ciphertext)
            IN  Returns(i, r.p,
                        Call("Decrypt", label, Bytes(dst), ciphertext, p[i], r.ret))

\* Both have made their Encrypt and Decrypt calls, and protocol i no other.
Decrypted(i) ==
    /\ nops[i] = 1
    /\ ~Fresh(Sender) /\ ~Fresh(Receiver)
    /\ nops' = [nops EXCEPT ![i] = @ + 1]
    /\ UNCHANGED nmix

LaterDerive(i) ==
    /\ Decrypted(i)
    /\ \E n \in {0, MaxLen} :
        LET r == Derive(p[i], PeerLabel, <<>>, n)
        IN  Returns(i, r.p, CallOfDerive(PeerLabel, <<>>, n, p[i], r))

LaterEncrypt(i) ==
    /\ Decrypted(i)
    /\ LET r == Encrypt(p[i], PeerLabel, <<>>, <<>>)
       IN  Returns(i, r.p, Call("Encrypt", PeerLabel, <<>>, <<>>, p[i], r.ret))

LaterSeal(i) ==
    /\ Decrypted(i)
    /\ LET r == Seal(p[i], PeerLabel, <<>>, PeerPlaintext)
       IN  Returns(i, r.p, Call("Seal", PeerLabel, <<>>, PeerPlaintext, p[i], r.ret))

NextTamper ==
    \/ \E i \in Procs : TamperMix(i)
    \/ TamperEncrypt(Sender)
    \/ TamperDecrypt(Receiver)
    \/ \E i \in Procs : LaterDerive(i)
    \/ \E i \in Procs : LaterEncrypt(i)
    \/ \E i \in Procs : LaterSeal(i)

SpecTamper == InitMix /\ [][NextTamper]_vars

(***************************************************************************)
(* One protocol whose caller calls Derive with lengths from the whole of    *)
(* int, recovers from the panics and goes on using the protocol.            *)
(***************************************************************************)
\* 0, 1, 2, 2^32, 2^61 - 1, 2^61, 2^61 + 1, 2^62, 2^63 - 1, -2^63, -1.
WideLens ==
    {Zeros(8), Word(1, 1, 0), Word(1, 2, 0), Word(5, 1, 0),
     Word(8, 31, 255), Word(8, 32, 0), [Word(8, 32, 0) EXCEPT ![8] = 1], Word(8, 64, 0),
     Word(8, 127, 255), Word(8, 128, 0), Word(8, 255, 255)}

WideDerive(i) ==
    /\ ChainRatcheting(i)
    /\ \E label \in Labels, n \in WideLens :
        LET r == DeriveWide(p[i], label, n)
        IN  Returns(i, r.p,
                    [Call("Derive", label, <<>>, Bytes(n), p[i], r.read)
                        EXCEPT !.panic = r.panic, !.plaintext = r.e])

NextWide ==
    \/ ChainMix(Sender)
    \/ WideDerive(Sender)

SpecWide == InitMix /\ [][NextWide]_vars

(***************************************************************************)
(* A receiver that opens sealed messages, intact or altered, into a dst of  *)
(* no length whose backing array is the input's (dst = input[:0]), has      *)
(* spare capacity for the plaintext, or has none.  The call's record keeps  *)
(* what the bytes of dst's backing array after len(dst) hold when Open      *)
(* returns (spare) and the capacity of dst (n): nothing when dst had no      *)
(* capacity, since the array Open allocated is returned to the caller only  *)
(* with ret.                                                                *)
(***************************************************************************)
Capacities == {"input", "spare", "none"}

BufferOpen(i) ==
    /\ Ratcheting(i)
    /\ \E input \in TimedInputs(i), capacity \in Capacities :
        LET r == OpenInto(p[i], PeerLabel,
                          Memory(Take(input, BLen(input) - TagLen),
                                 Drop(input, BLen(input) - TagLen), capacity = "input"))
        IN  Returns(i, r.p,
                    [CallOfOpen(PeerLabel, <<>>, input, p[i], r)
                        EXCEPT !.inplace = (capacity = "input"),
                               !.n = CASE capacity = "input" -> BLen(input)
                                       [] capacity = "spare" -> BLen(input) - TagLen
                                       [] capacity = "none" -> 0,
                               !.spare = IF capacity = "none" THEN <<>> ELSE Load(r.m, "dst")])

NextBuffer ==
    \/ \E i \in Procs : CallMix(i)
    \/ BufferOpen(Receiver)

SpecBuffer == InitMix /\ [][NextBuffer]_vars

(***************************************************************************)
(* Calls of aes.CTR and of the CTR mode of the standard library, as         *)
(* FuzzCTR makes them, on keys of the three AES key lengths, counters that  *)
(* carry into one, several and all bytes, and inputs of up to eight blocks. *)
(***************************************************************************)
CTRKeys == {[j \in 1..n |-> 96 + (j % 7)] : n \in {16, 24, 32}}

CTRCounters ==
    {Zeros(16),
     [j \in 1..16 |-> 96 + j],
     [j \in 1..16 |-> IF j = 16 THEN 255 ELSE 0],
     [j \in 1..16 |-> IF j >= 15 THEN 255 ELSE 7],
     [j \in 1..16 |-> IF j = 16 THEN 254 ELSE 255],
     [j \in 1..16 |-> 255]}

CTRLens == {0, 1, 15, 16, 17, 31, 32, 33, 63, 64, 127, 128}

CallCTR(i) ==
    /\ last[i].op = "NewProtocol"
    /\ \E key \in CTRKeys, iv \in CTRCounters, n \in CTRLens :
        LET src == Bytes([j \in 1..n |-> j] \o <<>>)
            got == CTR(key \o <<>>, iv \o <<>>, src)
            want == NewCTR(key \o <<>>, iv \o <<>>, src)
        IN  last' = [last EXCEPT ![i] =
                        [Call("CTR", key \o <<>>, Bytes(iv \o <<>>), src, p[i], got.dst)
                            EXCEPT !.plaintext = want, !.n = n, !.steps = got.encryptions]]
    /\ UNCHANGED <<p, nmix, nops, trace>>

NextCTR == CallCTR(Sender)

SpecCTR == InitMix /\ [][NextCTR]_vars

(***************************************************************************)
(* Calls of polyvalAuth on two keys and on messages of up to two blocks     *)
(* and a byte, some of which differ only in zero bytes at their end.        *)
(***************************************************************************)
AuthKeys == {[j \in 1..16 |-> 96 + j], [j \in 1..16 |-> IF j = 16 THEN 1 ELSE 0]}

AuthMessages ==
    {[j \in 1..n |-> j] : n \in {0, 1, 15, 16, 17, 31, 32, 33}}
        \cup {[j \in 1..n |-> IF j = 1 THEN 1 ELSE 0] : n \in {2, 16, 17}}
        \cup {[j \in 1..n |-> IF j <= 16 THEN j ELSE 0] : n \in {17, 32}}
        \cup {Zeros(n) : n \in {1, 16}}

CallPolyvalAuth(i) ==
    /\ last[i].op \in {"NewProtocol", "polyvalAuth"}
    /\ nops[i] < MaxOps
    /\ nops' = [nops EXCEPT ![i] = @ + 1]
    /\ \E key \in AuthKeys, message \in AuthMessages :
        last' = [last EXCEPT ![i] =
                    [Call("polyvalAuth", key \o <<>>, <<>>, Bytes(message \o <<>>), p[i],
                          polyvalAuth(Bytes(key \o <<>>), Bytes(message \o <<>>)))
                        EXCEPT !.plaintext = PolyvalBlocks(Bytes(message \o <<>>))]]
    /\ UNCHANGED <<p, nmix, trace>>

NextPolyval == \E i \in Procs : CallPolyvalAuth(i)

SpecPolyval == InitMix /\ [][NextPolyval]_vars

(***************************************************************************)
(* Properties.  S and R abbreviate the latest calls of the sender and the   *)
(* receiver.                                                                *)
(***************************************************************************)
S == last[Sender]
R == last[Receiver]

\* The receiver started from the state the sender started from, and used the
\* sender's label.
SameStart == R.pre = S.pre /\ R.label = S.label

Sealed == S.op = "Seal" /\ R.op = "Open" /\ SameStart
Encrypted == S.op = "Encrypt" /\ R.op = "Decrypt" /\ SameStart

\* The input is the in-flight message with exactly one byte XORed with a mask.
OneByteAltered(input) ==
    \E k \in 1..BLen(InFlight), m \in Masks : input = XorAt(InFlight, k, m)

\* The bytes expand absorbs after the transcript to produce the ratchet key:
\* 0x05, left_encode(88), "ratchet key", right_encode(256).
RatchetKeyRecord == Bytes(<<5, 1, 88>> \o LabelRatchet \o <<1, 0, 2>>)

\* t is 0x06, 0x02, 0x01, 0x00 followed by keylen bytes of one cSHAKE output,
\* read from offset 0 of an engine customised as st0 that absorbed st0's
\* transcript, then further bytes, then the ratchet key record.
RatchetSeed(t, st0, keylen) ==
    /\ Len(t) = 2
    /\ t[1] = [x |-> <<6, 2, 1, 0>>, s |-> {}]
    /\ t[2].x = Zeros(keylen)
    /\ \E a \in t[2].s :
        /\ t[2].s = {a}
        /\ a[2] = 0
        /\ a[1].kind = "XOF"
        /\ a[1].a = st0.custom
        /\ BLen(a[1].b) >= BLen(st0.transcript) + BLen(RatchetKeyRecord)
        /\ Take(a[1].b, BLen(st0.transcript)) = st0.transcript
        /\ Drop(a[1].b, BLen(a[1].b) - BLen(RatchetKeyRecord)) = RatchetKeyRecord

RatchetingOps == {"Derive", "Encrypt", "Decrypt", "Seal", "Open"}

\* C1: when the receiver opens, from the sender's starting state and with the
\* sender's label, exactly what Seal returned, Open returns no error and
\* dst followed by exactly the sealed plaintext (the empty one included).
C1_SealOpenRoundTrip ==
    (Sealed /\ R.input = InFlight)
        => (~R.err /\ ~R.isnil /\ R.ret = Cat(R.dst, S.input))

C1_Witness ==
    /\ Sealed /\ R.input = InFlight
    /\ S.pre.transcript # <<>>
    /\ BLen(S.input) = MaxLen
    /\ R.ret = Cat(R.dst, S.input)

C1_WitnessEmpty ==
    /\ Sealed /\ R.input = InFlight
    /\ S.input = <<>>
    /\ ~R.err

\* C2: when the receiver opens, from the sender's starting state and with the
\* sender's label, the sealed output with one byte (of the ciphertext or of the
\* tag) XORed with a non-zero mask, Open returns ErrInvalidCiphertext.
C2_SealOpenAuthenticity ==
    (Sealed /\ OneByteAltered(R.input)) => R.err

\* A ciphertext byte was altered.
C2_Witness ==
    /\ Sealed /\ R.err
    /\ BLen(S.input) = MaxLen
    /\ R.input = XorAt(InFlight, MaxLen, 128)

\* A tag byte was altered.
C2_WitnessTag ==
    /\ Sealed /\ R.err
    /\ R.input = XorAt(InFlight, BLen(InFlight), 128)

\* C3: when the receiver decrypts, from the sender's starting state and with
\* the sender's label, exactly what Encrypt returned, Decrypt returns dst
\* followed by exactly the encrypted plaintext.
C3_EncryptDecryptRoundTrip ==
    (Encrypted /\ R.input = InFlight) => R.ret = Cat(R.dst, S.input)

C3_Witness ==
    /\ Encrypted /\ R.input = InFlight
    /\ S.pre.transcript # <<>>
    /\ BLen(S.input) = MaxLen
    /\ R.ret = Cat(R.dst, S.input)

\* C4: after Encrypt on the sender and Decrypt of that ciphertext on the
\* receiver, from equal states and with the same label, the two protocols are
\* in equal states (so that every later operation gives equal outputs).
C4_EncryptDecryptStateEquality ==
    (Encrypted /\ R.input = InFlight) => p[Receiver] = p[Sender]

C4_Witness ==
    /\ Encrypted /\ R.input = InFlight
    /\ BLen(S.input) = MaxLen
    /\ p[Receiver] = p[Sender]
    /\ p[Receiver] # R.pre

\* C5: after Seal on the sender and a successful Open of the sealed output on
\* the receiver, from equal states and with the same label, the two protocols
\* are in equal states.
C5_SealOpenStateEquality ==
    (Sealed /\ R.input = InFlight /\ ~R.err) => p[Receiver] = p[Sender]

C5_Witness ==
    /\ Sealed /\ R.input = InFlight /\ ~R.err
    /\ BLen(S.input) = MaxLen
    /\ p[Receiver] = p[Sender]
    /\ p[Receiver] # R.pre

\* C6 (as amended): after Seal on the sender and an Open on the receiver that
\* returns ErrInvalidCiphertext, from equal states and with the same label,
\* the receiver has ratcheted, but it is in the sender's state exactly when the
\* plaintext Open recovered is the sealed plaintext; otherwise the two
\* protocols have diverged.
C6_FailedOpenStateEquality ==
    (Sealed /\ R.err)
        => /\ RatchetSeed(p[Receiver].transcript, R.pre, 32)
           /\ (p[Receiver] = p[Sender]) <=> (R.plaintext = S.input)

\* A failed Open after which the receiver is not in the sender's state.
C6_Witness ==
    /\ Sealed /\ R.err
    /\ OneByteAltered(R.input)
    /\ p[Receiver] # p[Sender]

\* A failed Open (of an empty plaintext with an altered tag) after which the
\* receiver is in the sender's state.
C6_WitnessEqual ==
    /\ Sealed /\ R.err
    /\ p[Receiver] = p[Sender]

\* C6 as stated: after a failed Open the two protocols are in equal states.
C6_AsStated ==
    (Sealed /\ R.err) => p[Receiver] = p[Sender]

\* C7: when Open returns, with or without ErrInvalidCiphertext, the transcript
\* is a fresh ratchet seed derived from everything absorbed up to the ratchet,
\* not the transcript Open started from; and a Mix that follows a failed Open
\* appends to that seed.
C7_OpenRatchetsUnconditionally ==
    /\ [](\A i \in Procs :
            last[i].op = "Open"
                => /\ RatchetSeed(p[i].transcript, last[i].pre, 32)
                   /\ p[i].transcript # last[i].pre.transcript)
    /\ [][\A i \in Procs :
            (last[i].op = "Open" /\ last[i].err /\ last'[i].op = "Mix")
                => /\ last'[i].pre = p[i]
                   /\ BLen(p'[i].transcript) > BLen(p[i].transcript)
                   /\ Take(p'[i].transcript, BLen(p[i].transcript)) = p[i].transcript]_vars

\* Open failed and left a ratchet seed, though it started from a transcript
\* that was not empty.
C7_Witness ==
    /\ R.op = "Open" /\ R.err
    /\ R.pre.transcript # <<>>
    /\ RatchetSeed(p[Receiver].transcript, R.pre, 32)

\* C8: Open returns ErrInvalidCiphertext exactly when the last TagLen bytes of
\* its input differ from the tag it recomputed; it then returns a nil slice,
\* holding neither dst nor decrypted bytes; and no other operation returns
\* ErrInvalidCiphertext.
C8_OpenFailureResult ==
    \A i \in Procs :
        /\ last[i].op = "Open"
            => /\ last[i].err <=>
                    (Drop(last[i].input, BLen(last[i].input) - TagLen) # last[i].tagP)
               /\ last[i].err => (last[i].isnil /\ last[i].ret = <<>>)
               /\ ~last[i].err => ~last[i].isnil
        /\ last[i].op # "Open" => ~last[i].err

\* Open failed on a message with a non-empty ciphertext and returned nil.
C8_Witness ==
    /\ R.op = "Open" /\ R.err /\ R.isnil
    /\ R.plaintext # <<>>
    /\ R.dst # <<>>

\* C9 (as amended): when Derive, Encrypt, Decrypt, Seal or Open returns, the
\* transcript is exactly the 36-byte ratchet record: 0x06, left_encode(256) =
\* 02 01 00, and a 32-byte key expanded from the transcript as it was before
\* the reset, whatever its length; after Mix the transcript is the earlier
\* transcript with bytes appended, and no ratchet record.
C9_RatchetLast ==
    \A i \in Procs :
        /\ last[i].op \in RatchetingOps
            => /\ BLen(p[i].transcript) = 36
               /\ RatchetSeed(p[i].transcript, last[i].pre, 32)
        /\ last[i].op = "Mix"
            => /\ BLen(p[i].transcript) > BLen(last[i].pre.transcript)
               /\ Take(p[i].transcript, BLen(last[i].pre.transcript))
                    = last[i].pre.transcript
               /\ ~RatchetSeed(p[i].transcript, last[i].pre, 32)

\* An operation ratcheted a transcript that a Mix had made longer.
C9_Witness ==
    /\ S.op \in RatchetingOps
    /\ S.pre.transcript # <<>>
    /\ BLen(p[Sender].transcript) = 36

\* C9 as stated: the ratchet record is 34 bytes long.
C9_AsStated ==
    \A i \in Procs :
        last[i].op \in RatchetingOps
            => /\ BLen(p[i].transcript) = 34
               /\ Take(p[i].transcript, 4) = Bytes(<<6, 2, 1, 0>>)

\* The bytes Mix is to append, written out: 0x01, left_encode(8 * |label|),
\* label, left_encode(8 * |input|), input, for lengths below 32 bytes.
MixRecord(label, input) ==
    Concat(<<Bytes(<<1, 1, 8 * Len(label)>> \o label),
             Bytes(<<1, 8 * BLen(input)>>),
             input>>)

\* C10: after Mix(label, input) the transcript is the transcript before it
\* followed by exactly 0x01, left_encode(8 * |label|), label,
\* left_encode(8 * |input|), input; the customization is unchanged, nothing
\* is returned, and the other protocol is untouched.
C10_MixOnlyAppends ==
    /\ [](\A i \in Procs :
            last[i].op = "Mix"
                => /\ p[i].custom = last[i].pre.custom
                   /\ p[i].transcript
                        = Cat(last[i].pre.transcript, MixRecord(last[i].label, last[i].input))
                   /\ last[i].ret = <<>> /\ ~last[i].err)
    /\ [][\A i \in Procs :
            CallMix(i) => /\ last'[i].pre = p[i]
                          /\ \A j \in Procs \ {i} : p'[j] = p[j] /\ last'[j] = last[j]]_vars

\* A Mix of a one-byte input onto a transcript that is a ratchet seed.
C10_Witness ==
    /\ S.op = "Mix"
    /\ S.input # <<>>
    /\ BLen(S.pre.transcript) = 36
    /\ BLen(p[Sender].transcript) = 36 + 3 + Len(S.label) + 2 + 1

(***************************************************************************)
(* Histories.  The calls of a protocol without the copying calls (a copy    *)
(* has the calls of its source), and what was asked in each: the            *)
(* operation, its arguments, and for a construction the customization.      *)
(***************************************************************************)
CopyOps == {"Clone", "UnmarshalBinary"}

IsCall(c) == c.op \notin CopyOps

Calls(i) == SelectSeq(trace[i], IsCall)

ArgsOf(c) ==
    <<c.op, c.label, c.dst, c.input,
      IF c.op = "Derive" THEN BLen(c.ret) - BLen(c.dst) ELSE 0,
      IF c.op = "NewProtocol" THEN c.pre.custom ELSE <<>>>>

History(i) == [k \in 1..Len(Calls(i)) |-> ArgsOf(Calls(i)[k])]

\* The copying calls by which protocol i came to be.
CopiedBy(i) == {trace[i][k].op : k \in 1..Len(trace[i])} \cap CopyOps

\* C11: when the second protocol is a clone of the first and the same calls
\* with the same arguments have been made on both since, the two are in
\* equal states and every call returned the same on both: the same derived
\* bytes, ciphertexts, tags, and Open results.
C11_CloneEquivalence ==
    (CopiedBy(Receiver) = {"Clone"} /\ History(Receiver) = History(Sender))
        => /\ p[Receiver] = p[Sender]
           /\ Calls(Receiver) = Calls(Sender)

\* A protocol was mixed into and cloned, and then it and its clone opened the
\* same sealed message successfully.
C11_Witness ==
    /\ CopiedBy(Receiver) = {"Clone"} /\ History(Receiver) = History(Sender)
    /\ Len(trace[Receiver]) = 4
    /\ trace[Receiver][2].op = "Mix" /\ trace[Receiver][3].op = "Clone"
    /\ R.op = "Open" /\ ~R.err /\ R.ret = PeerPlaintext
    /\ S.ret = R.ret

\* C12: Clone leaves its source as it was and yields a protocol in the
\* source's state; and once the second protocol is a clone of the first, a
\* call on either (Mix, a ratcheting operation, UnmarshalBinary) leaves the
\* other's state, and what its latest call returned, as they were.
C12_CloneIndependence ==
    [][/\ (trace'[Receiver] # trace[Receiver] /\ last'[Receiver].op = "Clone")
            => /\ p'[Sender] = p[Sender] /\ last'[Sender] = last[Sender]
               /\ p'[Receiver] = p[Sender]
       /\ ("Clone" \in CopiedBy(Receiver) /\ trace'[Receiver] # trace[Receiver])
            => (p'[Sender] = p[Sender] /\ last'[Sender] = last[Sender])
       /\ ("Clone" \in CopiedBy(Receiver) /\ trace'[Sender] # trace[Sender])
            => (p'[Receiver] = p[Receiver] /\ last'[Receiver] = last[Receiver])]_vars

\* The clone was made from a source that had been mixed into, the clone then
\* ratcheted, and the source, still in the state it was cloned in, was then
\* used itself.
C12_Witness ==
    /\ CopiedBy(Receiver) = {"Clone"}
    /\ Len(trace[Receiver]) = 4
    /\ trace[Receiver][3].op = "Clone"
    /\ trace[Receiver][3].pre.transcript # <<>>
    /\ R.op \in RatchetingOps
    /\ S.op \in RatchetingOps
    /\ S.pre = trace[Receiver][3].pre
    /\ p[Sender] # p[Receiver]

\* The calls of protocol i that were UnmarshalBinary.
Loads(i) == {k \in 1..Len(trace[i]) : trace[i][k].op = "UnmarshalBinary"}

\* data is what MarshalBinary returns for the state it carries.
Marshalled(data) ==
    data = MarshalBinary([custom |-> data.custom, transcript |-> data.transcript])

\* The second protocol was loaded successfully.
Loaded == \E k \in Loads(Receiver) : ~trace[Receiver][k].err

C13_WitnessSameDomain ==
    /\ Loaded
    /\ R.op = "UnmarshalBinary"
    /\ R.pre.custom = p[Sender].custom
    /\ p[Receiver] = p[Sender]
    /\ p[Sender].transcript # <<>>

\* C14: UnmarshalBinary returns ErrInvalidState exactly when the data is
\* malformed or was marshalled from a protocol whose domain is not the
\* receiver's, and nil otherwise.
C14_InvalidState ==
    \A k \in Loads(Receiver) :
        LET call == trace[Receiver][k]
            data == call.input[1]
        IN  call.err <=> (~Marshalled(data) \/ data.custom # call.pre.custom)

\* The two protocols were constructed with different domains, neither is a
\* copy, and the same calls with the same arguments were made on both.
SameCallsDifferentDomains ==
    /\ CopiedBy(Receiver) = {}
    /\ Len(History(Receiver)) = Len(History(Sender))
    /\ History(Receiver)[1] # History(Sender)[1]
    /\ Tail(History(Receiver)) = Tail(History(Sender))

OutputOps == {"Derive", "Encrypt", "Seal"}

\* The last TagLen bytes of what a Seal call returned.
TagOf(c) == Drop(c.ret, BLen(c.ret) - TagLen)

\* C15 (as amended): two protocols constructed with different domains, on
\* which the same calls with the same arguments were made, are in different
\* states, and at every step what Derive, Encrypt and Seal returned differs
\* between them whenever it has any bytes (a Derive of n = 0 bytes and an
\* Encrypt of the empty plaintext return nothing on both); the tags differ.
C15_DomainSeparation ==
    SameCallsDifferentDomains
        => /\ p[Receiver] # p[Sender]
           /\ \A k \in 2..Len(Calls(Sender)) :
                LET c1 == Calls(Sender)[k]
                    c2 == Calls(Receiver)[k]
                IN  /\ (c1.op \in OutputOps /\ c1.ret # c1.dst) => c1.ret # c2.ret
                    /\ c1.op = "Seal" => TagOf(c1) # TagOf(c2)

\* Both were mixed into and then sealed the same plaintext.
C15_Witness ==
    /\ SameCallsDifferentDomains
    /\ Len(Calls(Sender)) = 3
    /\ Calls(Sender)[2].op = "Mix"
    /\ S.op = "Seal" /\ R.op = "Seal"
    /\ BLen(S.ret) = BLen(R.ret)
    /\ S.ret # R.ret

\* Both derived from the same label and n > 0.
C15_WitnessDerive ==
    /\ SameCallsDifferentDomains
    /\ S.op = "Derive" /\ R.op = "Derive"
    /\ BLen(S.ret) = BLen(S.dst) + MaxLen
    /\ S.ret # R.ret

\* C15 as stated: what Derive, Encrypt and Seal returned differs at every
\* step.
C15_AsStated ==
    SameCallsDifferentDomains
        => \A k \in 2..Len(Calls(Sender)) :
                Calls(Sender)[k].op \in OutputOps
                    => Calls(Sender)[k].ret # Calls(Receiver)[k].ret

\* C16: from the same starting transcript, two different sequences of Mix
\* calls never give the same transcript, whatever the lengths of their labels
\* and inputs.
C16_MixUnambiguous ==
    History(Sender) # History(Receiver) => p[Sender].transcript # p[Receiver].transcript

\* Mix("ab", "c") on one protocol and Mix("a", "bc") on the other.
C16_Witness ==
    /\ Len(trace[Sender]) = 2 /\ Len(trace[Receiver]) = 2
    /\ S.label = <<97, 98>> /\ S.input = Bytes(<<99>>)
    /\ R.label = <<97>> /\ R.input = Bytes(<<98, 99>>)
    /\ BLen(p[Sender].transcript) = BLen(p[Receiver].transcript)
    /\ p[Sender].transcript # p[Receiver].transcript

\* Mix("a", "bc") on one protocol and Mix("a", "b"); Mix("a", "c") on the other.
C16_WitnessSplit ==
    /\ Len(trace[Sender]) = 2 /\ Len(trace[Receiver]) = 3
    /\ S.label = <<97>> /\ S.input = Bytes(<<98, 99>>)
    /\ trace[Receiver][2].label = <<97>> /\ trace[Receiver][2].input = Bytes(<<98>>)
    /\ R.label = <<97>> /\ R.input = Bytes(<<99>>)
    /\ p[Sender].transcript # p[Receiver].transcript

\* Mix("a", "c" followed by the record of Mix("a", "c")) on one protocol and
\* Mix("a", "c"); Mix("a", "c") on the other.
C16_WitnessImitation ==
    /\ Len(trace[Sender]) = 2 /\ Len(trace[Receiver]) = 3
    /\ S.label = <<97>>
    /\ S.input = Cat(Bytes(<<99>>), MixRecord(<<97>>, Bytes(<<99>>)))
    /\ trace[Receiver][2].label = <<97>> /\ trace[Receiver][2].input = Bytes(<<99>>)
    /\ R.label = <<97>> /\ R.input = Bytes(<<99>>)
    /\ p[Sender].transcript # p[Receiver].transcript

\* The latest calls on the two protocols were the same operation with the
\* same arguments, made in different states.
SameCallDifferentStates ==
    /\ S.op \notin CopyOps \cup {"NewProtocol"}
    /\ ArgsOf(S) = ArgsOf(R)
    /\ S.pre # R.pre

\* C17 (as amended): when the same operation with the same arguments (Mix or
\* a ratcheting operation) is applied to two protocols whose states differ,
\* their states differ afterwards too, and what a Derive of n > 0 bytes
\* returned differs between them.
C17_DivergenceIrreversible ==
    SameCallDifferentStates
        => /\ p[Sender] # p[Receiver]
           /\ (S.op = "Derive" /\ S.ret # S.dst) => S.ret # R.ret

\* A protocol and its clone were mixed into with different inputs, and then
\* derived with the same label and n.
C17_Witness ==
    /\ SameCallDifferentStates
    /\ CopiedBy(Receiver) = {"Clone"}
    /\ S.pre.custom = R.pre.custom
    /\ Len(Calls(Sender)) = 3 /\ Len(Calls(Receiver)) = 3
    /\ Calls(Sender)[2].op = "Mix" /\ Calls(Receiver)[2].op = "Mix"
    /\ Calls(Sender)[2].label = Calls(Receiver)[2].label
    /\ Calls(Sender)[2].input # Calls(Receiver)[2].input
    /\ S.op = "Derive" /\ BLen(S.ret) = BLen(S.dst) + MaxLen
    /\ S.ret # R.ret

\* A protocol and its clone derived different numbers of bytes, and then were
\* mixed into with the same label and input.
C17_WitnessLength ==
    /\ SameCallDifferentStates
    /\ CopiedBy(Receiver) = {"Clone"}
    /\ Len(Calls(Sender)) = 3 /\ Len(Calls(Receiver)) = 3
    /\ Calls(Sender)[2].op = "Derive" /\ Calls(Receiver)[2].op = "Derive"
    /\ Calls(Sender)[2].pre = Calls(Receiver)[2].pre
    /\ Calls(Sender)[2].label = Calls(Receiver)[2].label
    /\ S.op = "Mix"
    /\ p[Sender] # p[Receiver]

\* C17 as stated: every later Derive output differs.
C17_AsStated ==
    SameCallDifferentStates
        => /\ p[Sender] # p[Receiver]
           /\ S.op = "Derive" => S.ret # R.ret

\* The number of bytes a Derive call asked for, and the bytes it appended.
DerivedLen(c) == BLen(c.ret) - BLen(c.dst)

Derived(c) == Drop(c.ret, BLen(c.dst))

\* What the engine has absorbed when Derive(label, n) reads its output from
\* state st: the transcript, 0x02, left_encode(8 * |label|), label,
\* left_encode(16), left_encode(8 * n), 0x05, left_encode(80), "prf output",
\* right_encode(8 * n)  (for 8 * n < 256).
DeriveInput(st, label, n) ==
    Concat(<<st.transcript,
             Bytes(<<2, 1, 8 * Len(label)>> \o label),
             Bytes(<<1, 16, 1, 8 * n>>),
             Bytes(<<5, 1, 80>> \o LabelPrf),
             Bytes(<<8 * n, 1>>)>>)

\* The latest calls on the two protocols were Derive calls in equal states
\* with the same label and different lengths.
DerivedDifferentLengths ==
    /\ S.op = "Derive" /\ R.op = "Derive"
    /\ S.pre = R.pre
    /\ S.label = R.label /\ S.dst = R.dst
    /\ DerivedLen(S) # DerivedLen(R)

\* C18: the bytes of Derive(label, n) are read from an engine that absorbed
\* the transcript, the Derive metadata holding the label and n, and the
\* expand record holding n; so from equal states two Derive calls with the
\* same label and different n read from different inputs, a non-empty shorter
\* output is not a prefix of the longer one, and the states afterwards differ.
C18_DeriveBindsLength ==
    /\ \A i \in Procs :
        last[i].op = "Derive"
            => Derived(last[i])
                 = SHAKERead(last[i].pre.custom,
                             DeriveInput(last[i].pre, last[i].label, DerivedLen(last[i])),
                             DerivedLen(last[i]))
    /\ DerivedDifferentLengths
        => /\ DeriveInput(S.pre, S.label, DerivedLen(S))
                # DeriveInput(R.pre, R.label, DerivedLen(R))
           /\ p[Sender] # p[Receiver]
           /\ (DerivedLen(S) > 0 /\ DerivedLen(S) < DerivedLen(R))
                => Take(Derived(R), DerivedLen(S)) # Derived(S)
           /\ (DerivedLen(R) > 0 /\ DerivedLen(R) < DerivedLen(S))
                => Take(Derived(S), DerivedLen(R)) # Derived(R)

\* A protocol derived one byte and its clone derived MaxLen bytes with the
\* same label.
C18_Witness ==
    /\ DerivedDifferentLengths
    /\ CopiedBy(Receiver) = {"Clone"}
    /\ DerivedLen(S) = 1 /\ DerivedLen(R) = MaxLen
    /\ Take(Derived(R), 1) # Derived(S)
    /\ p[Sender] # p[Receiver]

\* Two successive calls on the first protocol, the k-th and the one before
\* it, were Derive calls with the same label and number of bytes.
SuccessiveDerives(k) ==
    /\ Calls(Sender)[k - 1].op = "Derive" /\ Calls(Sender)[k].op = "Derive"
    /\ Calls(Sender)[k - 1].label = Calls(Sender)[k].label
    /\ Calls(Sender)[k - 1].dst = Calls(Sender)[k].dst
    /\ DerivedLen(Calls(Sender)[k - 1]) = DerivedLen(Calls(Sender)[k])

\* C19 (as amended): every Derive, Encrypt, Decrypt, Seal and Open leaves the
\* protocol in a state different from the one it was called in, and two
\* successive Derive calls with the same label and the same n > 0 return
\* different outputs.
C19_NoReads ==
    /\ \A k \in 1..Len(Calls(Sender)) :
        Calls(Sender)[k].op \in RatchetingOps
            => Calls(Sender)[k].pre
                 # (IF k = Len(Calls(Sender)) THEN p[Sender] ELSE Calls(Sender)[k + 1].pre)
    /\ \A k \in 2..Len(Calls(Sender)) :
        (SuccessiveDerives(k) /\ DerivedLen(Calls(Sender)[k]) > 0)
            => Calls(Sender)[k - 1].ret # Calls(Sender)[k].ret

\* Two successive Derive calls of MaxLen bytes with the same label returned
\* different outputs, after a call of every other ratcheting kind is possible.
C19_Witness ==
    /\ Len(Calls(Sender)) = MaxChain + 1
    /\ SuccessiveDerives(MaxChain + 1)
    /\ DerivedLen(S) = MaxLen
    /\ Calls(Sender)[MaxChain].ret # S.ret
    /\ S.pre # p[Sender]

\* A chain of a Decrypt, an Open that failed and a Seal, each of which
\* changed the state.
C19_WitnessOthers ==
    /\ Len(Calls(Sender)) = 4
    /\ Calls(Sender)[2].op = "Decrypt"
    /\ Calls(Sender)[3].op = "Open" /\ Calls(Sender)[3].err
    /\ S.op = "Seal"
    /\ Calls(Sender)[2].pre # Calls(Sender)[3].pre
    /\ Calls(Sender)[3].pre # S.pre
    /\ S.pre # p[Sender]

\* C19 as stated: two successive Derive calls with the same label and n
\* return different outputs, whatever n is.
C19_AsStated ==
    \A k \in 2..Len(Calls(Sender)) :
        SuccessiveDerives(k) => Calls(Sender)[k - 1].ret # Calls(Sender)[k].ret

\* The position in protocol i's calls of its latest ratcheting call, 0 when it
\* has made none.
LastRatchet(i) ==
    LET ks == {k \in 1..Len(Calls(i)) : Calls(i)[k].op \in RatchetingOps}
    IN  IF ks = {} THEN 0 ELSE CHOOSE k \in ks : \A j \in ks : j <= k

\* The Mix records of the Mix calls protocol i has made since then, in call
\* order.
MixRecordsSince(i) ==
    LET mixes == SelectSeq(SubSeq(Calls(i), LastRatchet(i) + 1, Len(Calls(i))),
                           LAMBDA c : c.op = "Mix")
    IN  Concat([k \in 1..Len(mixes) |-> MixRecord(mixes[k].label, mixes[k].input)] \o <<>>)

\* C20: after every call the transcript is empty when no ratcheting call has
\* been made, and else the 36-byte ratchet seed record of the latest
\* ratcheting call, followed by exactly the Mix records of the Mix calls made
\* since, in call order, and nothing else.
C20_TranscriptWellFormed ==
    \A i \in Procs :
        LET t == p[i].transcript
            k == LastRatchet(i)
            m == MixRecordsSince(i)
        IN  IF k = 0
            THEN t = m
            ELSE /\ BLen(t) = 36 + BLen(m)
                 /\ RatchetSeed(Take(t, 36), Calls(i)[k].pre, 32)
                 /\ Drop(t, 36) = m

\* A ratcheting call followed by two different Mix calls: the transcript is a
\* seed and two Mix records.
C20_Witness ==
    /\ Len(Calls(Sender)) = 4
    /\ LastRatchet(Sender) = 2
    /\ Calls(Sender)[3].op = "Mix" /\ S.op = "Mix"
    /\ <<Calls(Sender)[3].label, Calls(Sender)[3].input>> # <<S.label, S.input>>
    /\ BLen(p[Sender].transcript)
         = 36 + BLen(MixRecord(Calls(Sender)[3].label, Calls(Sender)[3].input))
              + BLen(MixRecord(S.label, S.input))

\* Two Mix calls and no ratcheting call: the transcript is two Mix records.
C20_WitnessUnratcheted ==
    /\ Len(Calls(Sender)) = 3
    /\ LastRatchet(Sender) = 0
    /\ p[Sender].transcript
         = Cat(MixRecord(Calls(Sender)[2].label, Calls(Sender)[2].input),
               MixRecord(S.label, S.input))

\* A Mix call, then a ratcheting call: the transcript is the seed alone.
C20_WitnessSeedOnly ==
    /\ Len(Calls(Sender)) = 3
    /\ Calls(Sender)[2].op = "Mix"
    /\ LastRatchet(Sender) = 3
    /\ BLen(p[Sender].transcript) = 36

\* The state the k-th call of the first protocol left it in.
StateAfter(k) ==
    IF k = Len(Calls(Sender)) THEN p[Sender] ELSE Calls(Sender)[k + 1].pre

\* C21: Derive with a negative n panics and returns nothing, leaving the
\* protocol in the state it was called in (nothing was written to the
\* transcript); Derive with n >= 0 does not panic.
C21_DeriveNegativePanics ==
    \A k \in 1..Len(Calls(Sender)) :
        Calls(Sender)[k].op = "Derive"
            => /\ Calls(Sender)[k].panic <=> Calls(Sender)[k].n < 0
               /\ Calls(Sender)[k].panic
                    => /\ StateAfter(k) = Calls(Sender)[k].pre
                       /\ Calls(Sender)[k].ret = <<>>

\* Derive panicked on a protocol with a non-empty transcript, and the caller
\* then derived MaxLen bytes from the unchanged protocol.
C21_Witness ==
    /\ Len(Calls(Sender)) = 4
    /\ Calls(Sender)[2].op = "Mix"
    /\ Calls(Sender)[3].op = "Derive" /\ Calls(Sender)[3].panic
    /\ Calls(Sender)[3].n = -200
    /\ S.op = "Derive" /\ S.n = MaxLen /\ ~S.panic
    /\ S.pre = Calls(Sender)[3].pre
    /\ S.pre.transcript # <<>>

\* The latest calls on the two protocols were Derive calls in equal states
\* with the same label, n and dst.
SameDerive ==
    /\ S.op = "Derive" /\ R.op = "Derive"
    /\ S.pre = R.pre
    /\ S.label = R.label /\ S.n = R.n /\ S.dst = R.dst

\* C22: two Derive calls in equal states with the same label, n and dst return
\* the same bytes and leave equal states, whatever the spare capacity of dst
\* held; the n output bytes are the bytes read from the engine, not combined
\* with what the spare capacity held.
C22_DeriveDestinationIndependence ==
    /\ SameDerive => S.ret = R.ret /\ p[Sender] = p[Receiver]
    /\ \A i \in Procs :
        last[i].op = "Derive"
            => /\ Take(last[i].ret, BLen(last[i].dst)) = last[i].dst
               /\ Drop(last[i].ret, BLen(last[i].dst))
                    = SHAKERead(last[i].pre.custom,
                                DeriveInput(last[i].pre, last[i].label, last[i].n),
                                last[i].n)

\* One protocol derived MaxLen bytes into spare capacity that held zeros, the
\* other into spare capacity that held other bytes, after the same Mix.
C22_Witness ==
    /\ SameDerive
    /\ S.pre.transcript # <<>>
    /\ S.n = MaxLen
    /\ S.spare = Bytes(Zeros(MaxLen)) /\ R.spare = Bytes(Msg(MaxLen))
    /\ S.ret = R.ret
    /\ BLen(S.ret) = BLen(S.dst) + MaxLen

\* The record expand absorbs for the authentication tag: 0x05,
\* left_encode(144), "authentication tag", right_encode(128).
TagRecord == Bytes(<<5, 1, 144>> \o LabelTag \o <<128, 1>>)

\* t is TagLen bytes read from offset 0 of one engine that absorbed the tag
\* record last.
IsTag(t) ==
    /\ Len(t) = 1
    /\ t[1].x = Zeros(TagLen)
    /\ \E a \in t[1].s :
        /\ t[1].s = {a}
        /\ a[2] = 0
        /\ a[1].kind = "XOF"
        /\ Drop(a[1].b, BLen(a[1].b) - BLen(TagRecord)) = TagRecord

\* The number of bytes the call is to append to dst.
OutputLen(c) ==
    CASE c.op = "Derive" -> c.n
      [] c.op \in {"Encrypt", "Decrypt"} -> BLen(c.input)
      [] c.op = "Seal" -> BLen(c.input) + TagLen
      [] c.op = "Open" -> BLen(c.input) - TagLen

\* C23: Derive, Encrypt, Decrypt and Seal return dst unchanged followed by n,
\* |plaintext|, |ciphertext| and |plaintext| + 16 bytes, the last 16 bytes of
\* Seal being the tag; a successful Open returns dst followed by |input| - 16
\* bytes, the plaintext.
C23_AppendSemantics ==
    \A i \in Procs :
        /\ (last[i].op \in RatchetingOps /\ ~last[i].err)
            => /\ BLen(last[i].ret) = BLen(last[i].dst) + OutputLen(last[i])
               /\ Take(last[i].ret, BLen(last[i].dst)) = last[i].dst
        /\ last[i].op = "Seal"
            => IsTag(Drop(last[i].ret, BLen(last[i].ret) - TagLen))
        /\ (last[i].op = "Open" /\ ~last[i].err)
            => Drop(last[i].ret, BLen(last[i].dst)) = last[i].plaintext

\* Seal appended a ciphertext of MaxLen bytes and a tag to a non-empty dst,
\* and Open appended the MaxLen bytes of plaintext to a non-empty dst.
C23_Witness ==
    /\ S.op = "Seal" /\ S.dst # <<>> /\ BLen(S.input) = MaxLen
    /\ BLen(S.ret) = BLen(S.dst) + MaxLen + TagLen
    /\ R.op = "Open" /\ ~R.err /\ R.dst # <<>>
    /\ BLen(R.ret) = BLen(R.dst) + MaxLen

\* Encrypt and Decrypt appended MaxLen bytes to a non-empty dst.
C23_WitnessStream ==
    /\ S.op = "Encrypt" /\ S.dst # <<>> /\ BLen(S.ret) = BLen(S.dst) + MaxLen
    /\ R.op = "Decrypt" /\ R.dst # <<>> /\ BLen(R.ret) = BLen(R.dst) + MaxLen

\* Derive appended MaxLen bytes to a non-empty dst.
C23_WitnessDerive ==
    /\ S.op = "Derive" /\ S.dst # <<>> /\ S.n = MaxLen
    /\ BLen(S.ret) = BLen(S.dst) + MaxLen

\* The number of leading zero bytes of a uint64, and its value when that is
\* below 2^24.
ZeroBytes(w) == Cardinality({k \in 1..8 : \A j \in 1..k : w[j] = 0})

Small(w) == ZeroBytes(w) >= 5

ValueOf(w) == w[6] * 65536 + w[7] * 256 + w[8]

EncodeOps == {"leftEncode", "rightEncode"}

\* C24: with n = max(1, 8 - number of leading zero bytes of v), left_encode(v)
\* is the byte n followed by the n low-order bytes of v, most significant
\* first, and right_encode(v) is those n bytes followed by the byte n; both
\* have n + 1 bytes, and the first value byte is zero only for v = 0.  The
\* tuplehash package computes the same encodings, and the encodings the
\* protocol computes for the values below 2^24 are these.
C24_EncodeLayout ==
    \A i \in Procs :
        last[i].op \in EncodeOps
            => LET v == last[i].input
                   n == Max(1, 8 - ZeroBytes(v))
                   low == SubSeq(v, 9 - n, 8)
               IN  /\ last[i].op = "leftEncode" => last[i].ret = <<n>> \o low
                   /\ last[i].op = "rightEncode" => last[i].ret = low \o <<n>>
                   /\ Len(last[i].ret) = n + 1
                   /\ low[1] = 0 <=> v = Zeros(8)
                   /\ last[i].op = "leftEncode" => LeftEncode(v) = last[i].ret
                   /\ last[i].op = "rightEncode" => RightEncode(v) = last[i].ret
                   /\ (Small(v) /\ last[i].op = "leftEncode")
                        => leftEncode(ValueOf(v)) = Bytes(last[i].ret)
                   /\ (Small(v) /\ last[i].op = "rightEncode")
                        => rightEncode(ValueOf(v)) = Bytes(last[i].ret)

\* 65536 encoded as 03 01 00 00 and as 01 00 00 03.
C24_Witness ==
    /\ S.op = "leftEncode" /\ S.input = <<0, 0, 0, 0, 0, 1, 0, 0>>
    /\ S.ret = <<3, 1, 0, 0>>
    /\ R.op = "rightEncode" /\ R.input = S.input
    /\ R.ret = <<1, 0, 0, 3>>

\* 0 encoded as 01 00 and as 00 01.
C24_WitnessZero ==
    /\ S.op = "leftEncode" /\ S.input = Zeros(8) /\ S.ret = <<1, 0>>
    /\ R.op = "rightEncode" /\ R.input = Zeros(8) /\ R.ret = <<0, 1>>

\* 2^64 - 1 encoded with n = 8.
C24_WitnessMax ==
    /\ S.op = "leftEncode" /\ S.input = [j \in 1..8 |-> 255]
    /\ S.ret = <<8>> \o S.input
    /\ R.op = "rightEncode" /\ R.input = S.input
    /\ R.ret = S.input \o <<8>>

\* C25: two values are equal if and only if their left_encode encodings are
\* equal, and if and only if their right_encode encodings are equal.
C25_EncodeInjective ==
    (S.op \in EncodeOps /\ S.op = R.op)
        => (S.input = R.input <=> S.ret = R.ret)

\* Two different values of the same number of bytes, and of different
\* numbers of bytes with the same low byte, have different encodings.
C25_Witness ==
    /\ S.op = "leftEncode" /\ R.op = "leftEncode"
    /\ S.input = <<0, 0, 0, 1, 0, 0, 0, 0>> /\ R.input = Zeros(8)
    /\ S.ret # R.ret

C25_WitnessRight ==
    /\ S.op = "rightEncode" /\ R.op = "rightEncode"
    /\ S.input # R.input
    /\ Len(S.ret) = Len(R.ret) /\ Len(S.ret) = 9
    /\ S.ret # R.ret

\* C26: Open of an input shorter than TagLen panics, returns neither a slice
\* nor an error, and leaves the protocol in the state it was called in; Open
\* of a longer input does not panic.
C26_OpenShortPanics ==
    \A k \in 1..Len(Calls(Sender)) :
        Calls(Sender)[k].op = "Open"
            => /\ Calls(Sender)[k].panic <=> BLen(Calls(Sender)[k].input) < TagLen
               /\ Calls(Sender)[k].panic
                    => /\ StateAfter(k) = Calls(Sender)[k].pre
                       /\ ~Calls(Sender)[k].err
                       /\ Calls(Sender)[k].ret = <<>>

\* Open panicked on the first TagLen - 1 bytes of a sealed message, on a
\* protocol with a non-empty transcript, and the caller then opened the whole
\* message with the unchanged protocol.
C26_Witness ==
    /\ Len(Calls(Sender)) = 4
    /\ Calls(Sender)[2].op = "Derive" /\ ~Calls(Sender)[2].panic
    /\ Calls(Sender)[3].op = "Open" /\ Calls(Sender)[3].panic
    /\ BLen(Calls(Sender)[3].input) = TagLen - 1
    /\ S.op = "Open" /\ ~S.panic /\ ~S.err
    /\ S.pre = Calls(Sender)[3].pre
    /\ S.pre.transcript # <<>>

CryptOps == {"Encrypt", "Decrypt", "Seal", "Open"}

\* The latest calls on the two protocols were the same operation in equal
\* states with the same label and input, one in place and one not.
SameCallInPlace ==
    /\ S.op \in CryptOps /\ S.op = R.op
    /\ S.pre = R.pre /\ S.label = R.label /\ S.input = R.input
    /\ S.inplace # R.inplace

\* What the operation of call c gives without regard to memory.
Disjoint(c) ==
    CASE c.op = "Encrypt" -> Encrypt(c.pre, c.label, <<>>, c.input)
      [] c.op = "Decrypt" -> Decrypt(c.pre, c.label, <<>>, c.input)
      [] c.op = "Seal" -> Seal(c.pre, c.label, <<>>, c.input)
      [] c.op = "Open" -> Open(c.pre, c.label, <<>>, c.input)

\* C27: Encrypt, Decrypt, Seal and Open called with dst = src[:0] return the
\* same bytes (and for Open the same error) and leave the protocol in the same
\* state as when called with a dst of its own.
C27_InPlaceEquivalence ==
    /\ SameCallInPlace
        => /\ S.ret = R.ret /\ S.err = R.err /\ S.isnil = R.isnil
           /\ p[Sender] = p[Receiver]
    /\ \A i \in Procs :
        last[i].op \in CryptOps
            => /\ last[i].ret = Disjoint(last[i]).ret
               /\ p[i] = Disjoint(last[i]).p

\* A Seal of MaxLen bytes in place and the same Seal into another buffer,
\* after the same Mix.
C27_Witness ==
    /\ SameCallInPlace
    /\ S.op = "Seal" /\ S.inplace /\ BLen(S.input) = MaxLen
    /\ S.pre.transcript # <<>>
    /\ S.ret = R.ret /\ p[Sender] = p[Receiver]

C27_WitnessEncrypt ==
    /\ SameCallInPlace
    /\ S.op = "Encrypt" /\ S.inplace /\ BLen(S.input) = MaxLen
    /\ S.ret = R.ret /\ p[Sender] = p[Receiver]

C27_WitnessDecrypt ==
    /\ SameCallInPlace
    /\ S.op = "Decrypt" /\ R.inplace /\ BLen(S.input) = MaxLen
    /\ S.ret = R.ret /\ p[Sender] = p[Receiver]

\* An Open that succeeded and an Open that failed, in place and not.
C27_WitnessOpen ==
    /\ SameCallInPlace
    /\ S.op = "Open" /\ S.inplace /\ ~S.err /\ BLen(S.ret) = MaxLen
    /\ S.ret = R.ret /\ p[Sender] = p[Receiver]

C27_WitnessOpenFailed ==
    /\ SameCallInPlace
    /\ S.op = "Open" /\ S.inplace /\ S.err /\ R.err
    /\ p[Sender] = p[Receiver]

\* The domain a protocol in state st was constructed with.
DomainOf(st) == SubSeq(st.custom[1].x, Len(DomainPrefix) + 1, Len(st.custom[1].x))

\* The call c made on a protocol that no other caller touches: the state it
\* leaves, what it returns, and whether it returns an error.
Alone(c) ==
    CASE c.op = "NewProtocol" ->
            [p |-> NewProtocol(DomainOf(c.pre)), ret |-> <<>>, err |-> FALSE]
      [] c.op = "Mix" ->
            [p |-> Mix(c.pre, c.label, c.input), ret |-> <<>>, err |-> FALSE]
      [] c.op = "Derive" ->
            [Derive(c.pre, c.label, c.dst, c.n) EXCEPT !.panic = FALSE] @@ [err |-> FALSE]
      [] c.op = "Encrypt" -> Encrypt(c.pre, c.label, c.dst, c.input) @@ [err |-> FALSE]
      [] c.op = "Decrypt" -> Decrypt(c.pre, c.label, c.dst, c.input) @@ [err |-> FALSE]
      [] c.op = "Seal" -> Seal(c.pre, c.label, c.dst, c.input) @@ [err |-> FALSE]
      [] c.op = "Open" -> Open(c.pre, c.label, c.dst, c.input)

C29_WitnessFirst ==
    /\ R.op = "ConstantTimeCompare" /\ R.err
    /\ R.input = Bytes([j \in 1..TagLen |-> 0])
    /\ R.steps = TagLen
    /\ S.op = "Open" /\ ~S.err /\ S.steps = TagLen

\* The compared tags are equal.
C29_WitnessEqual ==
    /\ R.op = "ConstantTimeCompare" /\ ~R.err /\ R.steps = TagLen

\* The operation code of a ratcheting call, and the length its metadata holds.
OpCode(c) ==
    CASE c.op = "Derive" -> 2
      [] c.op \in {"Encrypt", "Decrypt"} -> 3
      [] c.op \in {"Seal", "Open"} -> 4

\* The metadata of a ratcheting call, written out: the operation code,
\* left_encode(8 * |label|), label, left_encode(8 * |e|) = 01 10, and
\* e = left_encode(8 * length) = 01, 8 * length (for lengths below 32).
Metadata(c) ==
    Bytes(<<OpCode(c), 1, 8 * Len(c.label)>> \o c.label
              \o <<1, 16, 1, 8 * (IF c.op = "Derive" THEN c.n ELSE OutputLen(c)
                                    - (IF c.op = "Seal" THEN TagLen ELSE 0))>>)

\* What the engine had absorbed when the ratchet key of the seed t was read.
Ratcheted(t) == (CHOOSE a \in t[2].s : TRUE)[1].b

\* C30: the transcript a ratcheting call ratchets is the transcript before
\* the call followed by the call's metadata: the operation code (0x02 for
\* Derive, 0x03 for Encrypt and Decrypt, 0x04 for Seal and Open),
\* left_encode(8 * |label|), label, left_encode(8 * |e|), e, with
\* e = left_encode(8 * n) for Derive and left_encode(8 * |message|) for the
\* others; for Derive nothing else follows it.
C30_MetadataLayout ==
    \A k \in 1..Len(Calls(Sender)) :
        Calls(Sender)[k].op \in RatchetingOps
            => LET c == Calls(Sender)[k]
                   written == Cat(c.pre.transcript, Metadata(c))
                   ratcheted == Ratcheted(StateAfter(k).transcript)
               IN  /\ Take(ratcheted, BLen(written)) = written
                   /\ c.op = "Derive" => ratcheted = Cat(written, RatchetKeyRecord)
                   /\ c.op # "Derive" => BLen(ratcheted) > BLen(Cat(written, RatchetKeyRecord))

\* A Derive of MaxLen bytes and a Seal of MaxLen bytes wrote their metadata
\* after a Mix record.
C30_Witness ==
    /\ Len(Calls(Sender)) = 4
    /\ Calls(Sender)[2].op = "Mix"
    /\ Calls(Sender)[3].op = "Derive" /\ Calls(Sender)[3].n = MaxLen
    /\ Calls(Sender)[3].pre.transcript # <<>>
    /\ S.op = "Seal" /\ BLen(S.input) = MaxLen
    /\ Take(Ratcheted(p[Sender].transcript), BLen(S.pre.transcript) + BLen(Metadata(S)))
         = Cat(S.pre.transcript, Metadata(S))

\* An Encrypt, a Decrypt and an Open wrote their metadata.
C30_WitnessOthers ==
    /\ Len(Calls(Sender)) = 4
    /\ Calls(Sender)[2].op = "Encrypt"
    /\ Calls(Sender)[3].op = "Decrypt"
    /\ S.op = "Open" /\ BLen(S.input) = MaxLen + TagLen
    /\ Take(Ratcheted(p[Sender].transcript), BLen(S.pre.transcript) + BLen(Metadata(S)))
         = Cat(S.pre.transcript, Metadata(S))

\* The length a ratcheting call encodes in its metadata: n for Derive, the
\* length of the plaintext or of the ciphertext without its tag otherwise.
MessageLen(c) ==
    IF c.op = "Derive" THEN c.n ELSE OutputLen(c) - (IF c.op = "Seal" THEN TagLen ELSE 0)

\* What the engine of protocol i had absorbed after the transcript its last
\* call started from, when the ratchet key was read.
AbsorbedBy(i) == Drop(Ratcheted(p[i].transcript), BLen(last[i].pre.transcript))

\* C31: the metadata record of Derive is 0x02, L(8 * |label|), label,
\* L(8 * |e|), e with e = L(8 * n), and that of Encrypt/Decrypt (0x03) and
\* Seal/Open (0x04) is the same with e = L(8 * |msg|): the final length field
\* e is preceded by its own length header L(8 * |e|), as combine writes
\* for every input.  Derive's ratchet key record follows it directly; the
\* others' authenticator record L(128), auth follows it.
C31_MetadataRecords ==
    \A i \in Procs :
        last[i].op \in RatchetingOps
            => LET c == last[i]
                   e == leftEncode(8 * MessageLen(c))
                   record == Concat(<<B(OpCode(c)), leftEncode(8 * Len(c.label)),
                                      Bytes(c.label), leftEncode(8 * BLen(e)), e>>)
                   absorbed == AbsorbedBy(i)
               IN  /\ Take(Ratcheted(p[i].transcript), BLen(c.pre.transcript))
                        = c.pre.transcript
                   /\ Take(absorbed, BLen(record)) = record
                   /\ c.op = "Derive" => Drop(absorbed, BLen(record)) = RatchetKeyRecord
                   /\ c.op # "Derive"
                        => Take(Drop(absorbed, BLen(record)), 2) = Bytes(<<1, 8 * TagLen>>)

\* The sender derived MaxLen bytes after a Mix: the record does not end with
\* the label.
C31_Witness ==
    /\ S.op = "Derive" /\ S.n = MaxLen /\ Len(S.label) = 2
    /\ S.pre.transcript # <<>>
    /\ BLen(AbsorbedBy(Sender)) = 4 + Len(S.label) + 3 + BLen(RatchetKeyRecord)

\* The sender sealed MaxLen bytes and the receiver opened them untouched.
C31_WitnessSealed ==
    /\ S.op = "Seal" /\ BLen(S.input) = MaxLen
    /\ R.op = "Open" /\ BLen(R.input) = MaxLen + TagLen /\ ~R.err

\* The sender encrypted and the receiver decrypted a single byte.
C31_WitnessEncrypted ==
    /\ S.op = "Encrypt" /\ R.op = "Decrypt"
    /\ BLen(S.input) = 1 /\ BLen(R.input) = 1

\* C31 as stated: nothing but the operation code, L(8 * |label|) and the label
\* precedes the final length field L(8 * length), and Derive's record ends
\* with it.
C31_AsStated ==
    \A i \in Procs :
        last[i].op \in RatchetingOps
            => LET c == last[i]
                   record == Concat(<<B(OpCode(c)), leftEncode(8 * Len(c.label)),
                                      Bytes(c.label), leftEncode(8 * MessageLen(c))>>)
                   absorbed == AbsorbedBy(i)
               IN  /\ Take(absorbed, BLen(record)) = record
                   /\ c.op = "Derive" => Drop(absorbed, BLen(record)) = RatchetKeyRecord

\* The primitive calls of one kind whose output is part of the bytes bs.
Sources(bs, kind) ==
    {a[1] : a \in {b \in UNION {bs[k].s : k \in 1..Len(bs)} : b[1].kind = kind}}

\* The expand calls whose output keyed the primitive calls of one kind in bs.
KeySources(bs, kind) == UNION {Sources(src.a, "XOF") : src \in Sources(bs, kind)}

\* The expand calls of the k-th call of the first protocol, by the use made
\* of their output: each is an engine customization a and the bytes b the
\* engine had absorbed.  The ratchet key is in the state the call leaves,
\* the prf output and the tag are returned (the tag of Open is the one it
\* compares with), the data encryption key keys the stream that turns the
\* input into the output, the data authentication key keys the authenticator
\* absorbed after the call's metadata.
ExpandsOf(k) ==
    LET c == Calls(Sender)[k]
        after == StateAfter(k).transcript
        out == Drop(c.ret, BLen(c.dst))
        message == IF c.op = "Open" THEN Take(c.input, BLen(c.input) - TagLen) ELSE c.input
        stream == CASE c.op = "Seal" -> XorBytes(Take(out, BLen(message)), message)
                    [] c.op = "Open" -> XorBytes(c.plaintext, message)
                    [] c.op = "Derive" -> <<>>
                    [] OTHER -> XorBytes(out, message)
        tag == CASE c.op = "Seal" -> Drop(out, BLen(message))
                 [] c.op = "Open" -> c.tagP
                 [] OTHER -> <<>>
    IN  [ratchet |-> Sources(after, "XOF"),
         prf |-> IF c.op = "Derive" THEN Sources(out, "XOF") ELSE {},
         tag |-> Sources(tag, "XOF"),
         dek |-> KeySources(stream, "CTR"),
         dak |-> KeySources(Drop(Ratcheted(after), BLen(c.pre.transcript)), "POLYVAL")]

ExpandRoles == {"ratchet", "prf", "tag", "dek", "dak"}

AllExpandsOf(k) == UNION {ExpandsOf(k)[r] : r \in ExpandRoles}

\* The record expand's copy of the engine absorbs: 0x05, left_encode of the
\* label's length in bits, the label, right_encode of n in bits.
ExpandRecord(label, n) == Cat(Bytes(<<5, 1, 8 * Len(label)>> \o label), rightEncode(8 * n))

\* The label and the length of the expand call of each use.
ExpandArgs(c) ==
    [ratchet |-> <<LabelRatchet, 32>>, prf |-> <<LabelPrf, c.n>>, tag |-> <<LabelTag, TagLen>>,
     dek |-> <<LabelDek, 16>>, dak |-> <<LabelDak, 16>>]

\* The number of expand calls of a call whose output is used: expand calls
\* of no bytes (a Derive of nothing, a stream for no message) leave no output.
ExpandsUsed(c) ==
    IF c.op = "Derive" THEN 1 + (IF c.n > 0 THEN 1 ELSE 0)
    ELSE 2 + (IF OutputLen(c) - (IF c.op = "Seal" THEN TagLen ELSE 0) > 0 THEN 1 ELSE 0)
           + (IF c.op \in {"Seal", "Open"} THEN 1 ELSE 0)

\* C32: in a sequence of operations of one protocol no two expand calls absorb
\* the same bytes: each absorbs the transcript followed by the record 0x05,
\* left_encode(8 * |label|), label, right_encode(8 * n) of its own label
\* and length, the expand calls of one operation are pairwise different, no
\* expand call of one operation is an expand call of another, and the ratchet
\* key of an operation is never read from what a prf output, a tag or a data
\* key, of this or any other operation, was read from.
C32_KeySeparation ==
    LET calls == Calls(Sender)
        ratcheting == {k \in 1..Len(calls) : calls[k].op \in RatchetingOps}
    IN  \A k \in ratcheting :
            LET uses == ExpandsOf(k)
                all == UNION {uses[r] : r \in ExpandRoles}
            IN  /\ \A r \in ExpandRoles : \A src \in uses[r] :
                    LET record == ExpandRecord(ExpandArgs(calls[k])[r][1],
                                               ExpandArgs(calls[k])[r][2])
                    IN  /\ src.a = calls[k].pre.custom
                        /\ BLen(src.b) >= BLen(calls[k].pre.transcript) + BLen(record)
                        /\ Drop(src.b, BLen(src.b) - BLen(record)) = record
                        /\ Take(src.b, BLen(calls[k].pre.transcript))
                             = calls[k].pre.transcript
                /\ Cardinality(uses.ratchet) = 1
                /\ Cardinality(all) = ExpandsUsed(calls[k])
                /\ \A j \in ratcheting :
                    /\ j # k => AllExpandsOf(j) \cap all = {}
                    /\ \A r \in ExpandRoles \ {"ratchet"} :
                           ExpandsOf(j)[r] \cap uses.ratchet = {}

\* A Derive of MaxLen bytes, a Seal and an Open of a message made the
\* 2 + 4 + 4 expand calls whose output they used.
C32_Witness ==
    /\ Len(Calls(Sender)) = 4
    /\ Calls(Sender)[2].op = "Derive" /\ Calls(Sender)[2].n = MaxLen
    /\ Calls(Sender)[3].op = "Seal"
    /\ Calls(Sender)[4].op = "Open"
    /\ Cardinality(AllExpandsOf(2) \cup AllExpandsOf(3) \cup AllExpandsOf(4)) = 10

\* An Encrypt and a Decrypt made three expand calls each, after a Derive of
\* no bytes.
C32_WitnessStream ==
    /\ Len(Calls(Sender)) = 4
    /\ Calls(Sender)[2].op = "Derive" /\ Calls(Sender)[2].n = 0
    /\ Calls(Sender)[3].op = "Encrypt"
    /\ Calls(Sender)[4].op = "Decrypt"
    /\ Cardinality(AllExpandsOf(3)) = 3 /\ Cardinality(AllExpandsOf(4)) = 3
    /\ Cardinality(AllExpandsOf(2)) = 1

\* C33: expand leaves the protocol's transcript as it was, so the call after
\* an expand starts from the state the expand started from, and two
\* consecutive expand calls with the same label and n return the same bytes;
\* every expand returns n bytes.
C33_ExpandNonMutating ==
    LET calls == Calls(Sender)
    IN  \A k \in 1..Len(calls) :
            calls[k].op = "expand"
                => /\ StateAfter(k) = calls[k].pre
                   /\ BLen(calls[k].ret) = calls[k].n
                   /\ (k < Len(calls) /\ calls[k + 1].op = "expand"
                         /\ calls[k + 1].label = calls[k].label /\ calls[k + 1].n = calls[k].n)
                        => calls[k + 1].ret = calls[k].ret

\* After a Mix, two consecutive expand calls with the same label returned the
\* same 32 bytes.
C33_Witness ==
    /\ Len(Calls(Sender)) = 4
    /\ Calls(Sender)[2].op = "Mix"
    /\ Calls(Sender)[3].op = "expand" /\ S.op = "expand"
    /\ Calls(Sender)[3].label = S.label /\ Calls(Sender)[3].n = 32 /\ S.n = 32
    /\ Calls(Sender)[3].ret = S.ret /\ BLen(S.ret) = 32
    /\ p[Sender] = Calls(Sender)[3].pre

\* A Derive between two expand calls with the same label and n: they return
\* different bytes, since the Derive changed the transcript.
C33_WitnessDerive ==
    /\ Len(Calls(Sender)) = 4
    /\ Calls(Sender)[2].op = "expand" /\ Calls(Sender)[3].op = "Derive" /\ S.op = "expand"
    /\ Calls(Sender)[2].label = S.label /\ Calls(Sender)[2].n = TagLen /\ S.n = TagLen
    /\ Calls(Sender)[2].ret # S.ret

\* The sender's Encrypt and the receiver's Decrypt: the first ratcheting call
\* of each, and the state it left.
FirstOp(i) == The({k \in 1..Len(Calls(i)) : Calls(i)[k].op \in {"Encrypt", "Decrypt"}
                      /\ \A j \in 1..(k - 1) : Calls(i)[j].op \in {"NewProtocol", "Mix"}})

Transmitted(i) == ~Fresh(i) /\ Calls(i)[FirstOp(i)].op \in {"Encrypt", "Decrypt"}

StateLeft(i) ==
    IF FirstOp(i) = Len(Calls(i)) THEN p[i] ELSE Calls(i)[FirstOp(i) + 1].pre

\* The receiver decrypted, from the state the sender encrypted in and with
\* the sender's label, a ciphertext of the length of the sender's that is
\* not the sender's.
TamperedWith ==
    /\ Transmitted(Sender) /\ Transmitted(Receiver)
    /\ LET e == Calls(Sender)[FirstOp(Sender)]
           d == Calls(Receiver)[FirstOp(Receiver)]
       IN  /\ e.op = "Encrypt" /\ d.op = "Decrypt"
           /\ e.pre = d.pre /\ e.label = d.label
           /\ BLen(d.input) = BLen(e.input)
           /\ d.input # Drop(e.ret, BLen(e.dst))

\* Both made the same further call after the Encrypt and the Decrypt.
SameLaterCall ==
    /\ Len(Calls(Sender)) = FirstOp(Sender) + 1
    /\ Len(Calls(Receiver)) = FirstOp(Receiver) + 1
    /\ ArgsOf(S) = ArgsOf(R)

\* C34 (as amended): Decrypt returns dst followed by |ciphertext| bytes and
\* no error; when the receiver decrypts, from the sender's state and with
\* the sender's label, a ciphertext of the same length that differs from the
\* one the sender's Encrypt returned, the state Decrypt leaves differs from
\* the state Encrypt left, the states still differ after the same further
\* call on both, and what that call returns differs when it is at least one
\* byte long.
C34_DecryptBindsTampering ==
    /\ \A i \in Procs : \A k \in 1..Len(Calls(i)) :
           Calls(i)[k].op = "Decrypt"
               => /\ BLen(Calls(i)[k].ret) = BLen(Calls(i)[k].dst) + BLen(Calls(i)[k].input)
                  /\ Take(Calls(i)[k].ret, BLen(Calls(i)[k].dst)) = Calls(i)[k].dst
                  /\ ~Calls(i)[k].err /\ ~Calls(i)[k].panic /\ ~Calls(i)[k].isnil
    /\ TamperedWith
           => /\ StateLeft(Sender) # StateLeft(Receiver)
              /\ SameLaterCall
                   => /\ p[Sender] # p[Receiver]
                      /\ S.ret # <<>> => S.ret # R.ret

\* The receiver decrypted the sender's two bytes with the second one altered,
\* and both then derived two bytes.
C34_Witness ==
    /\ TamperedWith /\ SameLaterCall
    /\ BLen(Calls(Receiver)[FirstOp(Receiver)].input) = MaxLen
    /\ Take(Calls(Receiver)[FirstOp(Receiver)].input, 1)
         = Take(Drop(Calls(Sender)[FirstOp(Sender)].ret, 1), 1)
    /\ S.op = "Derive" /\ S.n = MaxLen
    /\ S.ret # R.ret

\* After a tampered Decrypt both sealed the same message.
C34_WitnessSeal ==
    /\ TamperedWith /\ SameLaterCall
    /\ S.op = "Seal" /\ S.input # <<>> /\ S.ret # R.ret

\* C34 as stated: after a tampered Decrypt every later output of the receiver
\* differs from the sender's.
C34_AsStated ==
    (TamperedWith /\ SameLaterCall) => S.ret # R.ret

\* The length asked of a Derive call with a length of the whole of int.
WideLen(c) == c.input[1].x

\* n <= 2^32
UpTo2To32(n) == \/ \A j \in 1..4 : n[j] = 0
                \/ n = Word(5, 1, 0)

\* n < 2^61: 8 * n is below 2^64.
Below2To61(n) == n[1] < 32

\* C35 as stated: Derive does not panic for 0 <= n <= 2^32; a Derive that
\* panics leaves the transcript as it was; a Derive that returns has written
\* the exact product 8 * n (n < 2^61), and the length fields of two
\* different lengths it returned for are different.
C35_AsStated ==
    LET calls == Calls(Sender)
        derives == {k \in 1..Len(calls) : calls[k].op = "Derive"}
    IN  \A k \in derives :
            LET n == WideLen(calls[k])
            IN  /\ (~IsNegative(n) /\ UpTo2To32(n)) => ~calls[k].panic
                /\ calls[k].panic => StateAfter(k) = calls[k].pre
                /\ ~calls[k].panic => Below2To61(n)
                /\ \A j \in derives :
                       (~calls[k].panic /\ ~calls[j].panic /\ WideLen(calls[j]) # n)
                           => calls[j].plaintext # calls[k].plaintext

\* What does hold: Derive returns for 0 <= n <= 2^32, having written the
\* exact product, different for different lengths; a negative n leaves the
\* transcript as it was.
C35_ExactWhenReturned ==
    LET calls == Calls(Sender)
        derives == {k \in 1..Len(calls) : calls[k].op = "Derive"}
    IN  \A k \in derives :
            LET n == WideLen(calls[k])
            IN  /\ (~IsNegative(n) /\ UpTo2To32(n)) => ~calls[k].panic
                /\ IsNegative(n) => calls[k].panic /\ StateAfter(k) = calls[k].pre
                /\ ~calls[k].panic => Below2To61(n)
                /\ \A j \in derives :
                       (~calls[k].panic /\ ~calls[j].panic /\ WideLen(calls[j]) # n)
                           => calls[j].plaintext # calls[k].plaintext

\* A Derive of 2^61 bytes panicked after it had written the length field of
\* a Derive of no bytes, left_encode(0), to the transcript.
C35_WrappedLengthWritten ==
    /\ S.op = "Derive" /\ S.panic
    /\ WideLen(S) = Word(8, 32, 0)
    /\ S.plaintext = Bytes(<<1, 0>>)
    /\ p[Sender] # S.pre
    /\ p[Sender].transcript
         = Cat(S.pre.transcript,
               Concat(<<B(2), leftEncode(8 * Len(S.label)), Bytes(S.label),
                        Bytes(<<1, 16, 1, 0>>)>>))

\* The data encryption key and the stream Open decrypts with: the key
\* expanded after the metadata of the call, the tag received as the IV.
OpenStream(c) ==
    LET ciphertext == Take(c.input, BLen(c.input) - TagLen)
        tag == Drop(c.input, BLen(c.input) - TagLen)
        s1 == combine(c.pre, opAuthCrypt,
                      <<Bytes(c.label), leftEncode(BLen(ciphertext) * 8)>>)
    IN  XORKeyStream(expand(s1, LabelDek, 16), tag, ciphertext)

\* C36: when Open returns ErrInvalidCiphertext the slice it returns is nil,
\* and when dst had capacity for the plaintext (its own, or the input's with
\* dst = input[:0]) the bytes after len(dst) in its backing array hold the
\* unauthenticated plaintext, the ciphertext decrypted with the tag received
\* as the IV: Open has not cleared them.
C36_FailedOpenLeavesPlaintext ==
    \A i \in Procs :
        (last[i].op = "Open" /\ last[i].err)
            => /\ last[i].isnil /\ last[i].ret = <<>>
               /\ last[i].n >= BLen(last[i].input) - TagLen
                    => /\ last[i].spare = OpenStream(last[i])
                       /\ BLen(last[i].spare) = BLen(last[i].input) - TagLen
                       /\ last[i].spare # Bytes(Zeros(BLen(last[i].input) - TagLen))
                       /\ last[i].spare # Take(last[i].input, BLen(last[i].input) - TagLen)

\* The receiver opened in place the message sealed in its own state, with the
\* first byte of the ciphertext altered: Open failed and the input's array
\* holds the sealed plaintext with its first byte altered.
C36_Witness ==
    /\ R.op = "Open" /\ R.err /\ R.isnil /\ R.inplace
    /\ R.n = MaxLen + TagLen
    /\ R.pre.transcript # <<>>
    /\ R.input = Tamper(PeerSealed(R.pre), 1, 128)
    /\ R.spare = Tamper(PeerPlaintext, 1, 128)

\* The same into a dst with spare capacity, with the last byte of the tag
\* altered: the bytes are the ciphertext decrypted with the altered tag as
\* the IV, which is not the sealed plaintext.
C36_WitnessSpare ==
    /\ R.op = "Open" /\ R.err /\ ~R.inplace
    /\ R.n = MaxLen
    /\ R.input = Tamper(PeerSealed(R.pre), MaxLen + TagLen, 128)
    /\ R.spare = OpenStream(R) /\ R.spare # PeerPlaintext

\* A failed Open into a dst without capacity: the caller has no bytes of it.
C36_WitnessNone ==
    R.op = "Open" /\ R.err /\ R.n = 0 /\ R.spare = <<>> /\ R.isnil

\* C37: aes.CTR returns len(src) bytes, the bytes the CTR mode of the
\* standard library returns (block k XORed with the encryption of the
\* counter iv + k modulo 2^128, a last partial block with as many bytes as
\* remain), and for inputs of less than eight blocks it has made
\* max(1, ceil(len / 16)) block encryptions when it returns.
C37_CTRSmallIsCTR ==
    S.op = "CTR"
        => /\ S.ret = S.plaintext
           /\ BLen(S.ret) = S.n
           /\ S.n < 8 * BlockSize
                => S.steps = Max(1, (S.n + BlockSize - 1) \div BlockSize)

\* A call with a counter of 0xff..ff and 33 bytes: the counters of its three
\* blocks are ff..ff, 00..00 and 00..01.
C37_Witness ==
    /\ S.op = "CTR" /\ S.n = 33 /\ S.steps = 3
    /\ S.dst = Bytes([j \in 1..16 |-> 255])
    /\ Sources(S.ret, "AES")
         = {[kind |-> "AES", a |-> Bytes(S.label), b |-> Bytes(ctr)] :
               ctr \in {[j \in 1..16 |-> 255] \o <<>>, Zeros(16),
                        [Zeros(16) EXCEPT ![16] = 1]}}

\* A call with no input: one block encryption, no byte returned.
C37_WitnessEmpty ==
    S.op = "CTR" /\ S.n = 0 /\ S.steps = 1 /\ S.ret = <<>>

\* A call with a key of 32 bytes and a counter that carries into the last
\* but two byte.
C37_WitnessCarry ==
    /\ S.op = "CTR" /\ S.n = 127 /\ S.steps = 8 /\ Len(S.label) = 32
    /\ S.dst = Bytes([j \in 1..16 |-> IF j >= 15 THEN 255 ELSE 7])
    /\ [kind |-> "AES", a |-> Bytes(S.label),
        b |-> Bytes([j \in 1..16 |-> IF j >= 15 THEN 0 ELSE IF j = 14 THEN 8 ELSE 7])]
         \in Sources(S.ret, "AES")

\* The bytes of a message, and the blocks the statement has POLYVAL fed with:
\* the message, zeros up to the next multiple of 16, eight zeros, and
\* 8 * |m| as a little-endian 64-bit integer.
BytesOf(bs) == IF bs = <<>> THEN <<>> ELSE bs[1].x

PaddedBlocks(m) ==
    LET n == Len(m)
        padded == 16 * ((n + 15) \div 16)
    IN  [j \in 1..(padded + 16) |->
            IF j <= n THEN m[j]
            ELSE IF j <= padded + 8 THEN 0
            ELSE IF j = padded + 9 THEN (8 * n) % 256
            ELSE IF j = padded + 10 THEN (8 * n) \div 256
            ELSE 0] \o <<>>

\* C38: polyvalAuth feeds POLYVAL with the full blocks of the message, the
\* remaining 1..15 bytes padded with zeros to 16 (nothing for an empty
\* message or a multiple of 16), and a final block of eight zeros and the
\* length in bits, little-endian; two different messages give different
\* block sequences, and under one key two messages give equal
\* authenticators of 16 bytes exactly when they are equal.
C38_PolyvalPadding ==
    /\ \A i \in Procs :
           last[i].op = "polyvalAuth"
               => /\ last[i].plaintext = Bytes(PaddedBlocks(BytesOf(last[i].input)))
                  /\ BLen(last[i].plaintext) = 16 * ((BLen(last[i].input) + 15) \div 16) + 16
                  /\ BLen(last[i].ret) = 16
    /\ (S.op = "polyvalAuth" /\ R.op = "polyvalAuth")
           => /\ S.input # R.input => S.plaintext # R.plaintext
              /\ S.label = R.label => (S.input = R.input <=> S.ret = R.ret)

\* The messages 01 and 01 00 under one key: the padded blocks are equal, the
\* length blocks and the authenticators are not.
C38_Witness ==
    /\ S.op = "polyvalAuth" /\ R.op = "polyvalAuth" /\ S.label = R.label
    /\ S.input = Bytes(<<1>>) /\ R.input = Bytes(<<1, 0>>)
    /\ Take(S.plaintext, 16) = Take(R.plaintext, 16)
    /\ S.plaintext # R.plaintext /\ S.ret # R.ret

\* The empty message: one block, the length block, of zeros.
C38_WitnessEmpty ==
    S.op = "polyvalAuth" /\ S.input = <<>> /\ S.plaintext = Bytes(Zeros(16))

\* A message of two blocks and a message of two blocks and a byte.
C38_WitnessBlocks ==
    /\ S.op = "polyvalAuth" /\ R.op = "polyvalAuth"
    /\ BLen(S.input) = 32 /\ BLen(S.plaintext) = 48
    /\ BLen(R.input) = 33 /\ BLen(R.plaintext) = 64
    /\ Drop(R.plaintext, 56) = Bytes(<<8, 1, 0, 0, 0, 0, 0, 0>>)

\* Prefixes and suffixes of byte tuples, and a reader that takes a length
\* field from the left, and one from the end, of a tuple: the length byte
\* says how many value bytes to take, and the uint64 is these bytes after
\* leading zeros.
IsPrefix(a, b) == Len(a) <= Len(b) /\ SubSeq(b, 1, Len(a)) = a

IsSuffix(a, b) == Len(a) <= Len(b) /\ SubSeq(b, Len(b) - Len(a) + 1, Len(b)) = a

ReadLeft(t) == Zeros(8 - t[1]) \o SubSeq(t, 2, 1 + t[1])

ReadRight(t) == Zeros(8 - t[Len(t)]) \o SubSeq(t, Len(t) - t[Len(t)], Len(t) - 1)

\* C39: for two different values a and b, left_encode(a) is not a prefix of
\* left_encode(b) and right_encode(a) is not a suffix of right_encode(b), in
\* the protocol's encoders and in those of the tuplehash package; a reader
\* gets a back from left_encode(a) followed by other bytes, and from
\* right_encode(a) preceded by other bytes.
C39_PrefixFree ==
    (S.op \in EncodeOps /\ S.op = R.op)
        => /\ (S.op = "leftEncode" /\ S.input # R.input)
                => /\ ~IsPrefix(S.ret, R.ret)
                   /\ ~IsPrefix(LeftEncode(S.input), LeftEncode(R.input))
           /\ (S.op = "rightEncode" /\ S.input # R.input)
                => /\ ~IsSuffix(S.ret, R.ret)
                   /\ ~IsSuffix(RightEncode(S.input), RightEncode(R.input))
           /\ S.op = "leftEncode"
                => /\ ReadLeft(S.ret \o R.ret) = S.input
                   /\ ReadLeft(S.ret \o R.input) = S.input
           /\ S.op = "rightEncode"
                => /\ ReadRight(R.ret \o S.ret) = S.input
                   /\ ReadRight(R.input \o S.ret) = S.input

\* 1 and 257 = 0x0101: the value bytes of the first are a prefix of the value
\* bytes of the second, the encodings 01 01 and 02 01 01 differ in the first
\* byte.
C39_Witness ==
    /\ S.op = "leftEncode" /\ R.op = "leftEncode"
    /\ S.input = Word(1, 1, 0) /\ R.input = Word(2, 1, 1)
    /\ S.ret = <<1, 1>> /\ R.ret = <<2, 1, 1>>
    /\ IsPrefix(Tail(S.ret), Tail(R.ret))

\* 1 and 257 encoded from the right: 01 01 and 01 01 02.
C39_WitnessRight ==
    /\ S.op = "rightEncode" /\ R.op = "rightEncode"
    /\ S.input = Word(1, 1, 0) /\ R.input = Word(2, 1, 1)
    /\ S.ret = <<1, 1>> /\ R.ret = <<1, 1, 2>>
    /\ ~IsSuffix(S.ret, R.ret) /\ IsPrefix(S.ret, R.ret)

====
